---- MODULE Spec2Model ----
(***************************************************************************)
(* A model of pattie: COO sparse tensors, the quick sort over their rows,  *)
(* and the tensor-times-matrix kernels (COO and semi-COO, serial and       *)
(* multi-threaded).                                                        *)
(*                                                                         *)
(* Conventions.  Rust indices are 0-based, sequences here are 1-based: a   *)
(* row or column number of the model is the Rust number plus one.  A dense *)
(* array is kept as its flat C-order storage, so that every reshape of the *)
(* code is index arithmetic here.  Option<T> is a record [is_some, value]. *)
(***************************************************************************)
EXTENDS Integers, Sequences, FiniteSets, TLC

VARIABLES
    tensor,     \* the COOTensor the operations work on (COOTensorInner)
    matrix,     \* the dense matrix handed to TTM (a COOTensor with S = 0, D = 2)
    algo,       \* which kernel is run: "coo" or "scoo"
    phase,      \* position of the caller: "input", "running", "done"
    result,     \* Result<COOTensor> of the last TTM: [ok, err, tensor]
    par,        \* the multi-threaded kernel: per-fiber task state and shared output
    sort,       \* the quick sort: call stack, order, how execute ended
    hist,       \* history: what happened to `tensor` since it was created
    pool,       \* the axes built so far and AxisBuilder's COUNTER
    iter,       \* a COOIter over `tensor`: its cursor and what it has yielded
    io,         \* the text reader and writer: input text, cursor, outcome
    rand,       \* CreateRandomCOOTensor::execute: the rows drawn and index_hashtable
    tracer      \* the file Tracer: its handles, the channel and the writer thread

vars == <<tensor, matrix, algo, phase, result, par, sort, hist, pool, iter, io, rand, tracer>>

(***************************************************************************)
(* Bounds of the model.                                                    *)
(***************************************************************************)
\* Largest number of blocks (rows of indices) of an input tensor.
MaxBlocks == 2

(***************************************************************************)
(* Small helpers.                                                          *)
(***************************************************************************)
None == [is_some |-> FALSE, value |-> <<>>]

Some(v) == [is_some |-> TRUE, value |-> v]

Range(s) == {s[i] : i \in 1..Len(s)}

RECURSIVE Product(_)
Product(s) == IF s = <<>> THEN 1 ELSE Head(s) * Product(Tail(s))

(***************************************************************************)
(* Axis: an identity-carrying half-open interval.                          *)
(***************************************************************************)
\* impl PartialEq for Axis: identity alone.
AxisEq(a, b) == a.id = b.id

\* Axis::lower
lower(axis) == axis.lower

\* Axis::size (and Axis::len of the TTM kernels)
size(axis) == IF axis.lower < axis.upper THEN axis.upper - axis.lower ELSE 0

\* Iterator::position over a slice of axes: the first place of `axis` in `to`,
\* 0 when there is none.
position(to, axis) ==
    IF \E i \in 1..Len(to) : AxisEq(to[i], axis)
    THEN CHOOSE i \in 1..Len(to) :
            /\ AxisEq(to[i], axis)
            /\ \A k \in 1..(i - 1) : ~AxisEq(to[k], axis)
    ELSE 0

\* map_axes: for each axis of `from` its place in `to`; 0 is Err(AxisNotFound).
map_axes(from, to) == [i \in 1..Len(from) |-> position(to, from[i])]

\* Option<&Axis> equality of slice::last() and slice::first().
last_is(order, axis) == order # <<>> /\ AxisEq(order[Len(order)], axis)

(***************************************************************************)
(* COOTensor.                                                              *)
(***************************************************************************)
\* COOTensor::zeros
zeros(shape, is_axis_dense) ==
    LET n == Len(shape)
        sparse == SelectSeq([i \in 1..n |-> i], LAMBDA i : ~is_axis_dense[i])
        dense == SelectSeq([i \in 1..n |-> i], LAMBDA i : is_axis_dense[i])
    IN  [ shape |-> shape,
          sparse_axes |-> [k \in 1..Len(sparse) |-> shape[sparse[k]]],
          dense_axes |-> [k \in 1..Len(dense) |-> shape[dense[k]]],
          indices |-> <<>>,
          values |-> <<>>,
          sparse_is_sorted |-> TRUE,
          sparse_sort_order |-> [k \in 1..Len(sparse) |-> shape[sparse[k]]] ]

\* COOTensor::sparse_sort_order
sparse_sort_order(t) ==
    IF t.sparse_is_sorted THEN Some(t.sparse_sort_order) ELSE None

\* Tensor::ndim
ndim(t) == Len(t.shape)

\* The assertions at the head of push_block: index length, index ranges,
\* and the shape of the block (here its flat length).
push_block_accepts(t, sparse_index, value) ==
    /\ Len(sparse_index) = Len(t.sparse_axes)
    /\ \A c \in 1..Len(t.sparse_axes) :
          /\ t.sparse_axes[c].lower <= sparse_index[c]
          /\ sparse_index[c] < t.sparse_axes[c].upper
    /\ Len(value) = Product([d \in 1..Len(t.dense_axes) |-> size(t.dense_axes[d])])

\* push_block that forgets clear_sparse_sort_order.
push_block_keeps_flag(t, sparse_index, value) ==
    [t EXCEPT !.indices = Append(@, sparse_index), !.values = Append(@, value)]

\* COOTensor::push_block, past its assertions: clear_sparse_sort_order, then
\* one row more in indices and one block more in values.
push_block(t, sparse_index, value) ==
    [t EXCEPT !.sparse_is_sorted = FALSE,
              !.indices = Append(@, sparse_index),
              !.values = Append(@, value)]

\* The value stored for a failed or not yet run operation.
NoTensor ==
    [ shape |-> <<>>, sparse_axes |-> <<>>, dense_axes |-> <<>>, indices |-> <<>>,
      values |-> <<>>, sparse_is_sorted |-> FALSE, sparse_sort_order |-> <<>> ]

Err(msg) == [ok |-> FALSE, err |-> msg, tensor |-> NoTensor]

Ok(t) == [ok |-> TRUE, err |-> "", tensor |-> t]

(***************************************************************************)
(* Fiber grouping, shared in shape by both kernels (each has its own copy  *)
(* in the code; the COO copy is modelled, the semi-COO copy is the same    *)
(* text with `chunk` for `fiber`).                                         *)
(***************************************************************************)
\* index_eq_except_axis that compares the excepted column too.
index_eq_all_columns(indices, row_a, row_b, except_axis_index) ==
    indices[row_a] = indices[row_b]

\* index_eq_except_axis: rows row_a and row_b agree on every column but one.
index_eq_except_axis(indices, row_a, row_b, except_axis_index) ==
    \A i \in 1..Len(indices[row_a]) :
        i # except_axis_index => indices[row_a][i] = indices[row_b][i]

\* copy_index_except_axis that leaves out the last column, whichever is excepted.
copy_index_except_last(indices, row, except_axis_index) ==
    [i \in 1..(Len(indices[row]) - 1) |-> indices[row][i]]

\* copy_index_except_axis: the row without the excepted column.
copy_index_except_axis(indices, row, except_axis_index) ==
    [i \in 1..(Len(indices[row]) - 1) |->
        IF i < except_axis_index THEN indices[row][i] ELSE indices[row][i + 1]]

\* The scan `for i in 0..num_blocks` of compute_indices; last_index = 0 is None.
RECURSIVE compute_indices_loop(_, _, _, _, _)
compute_indices_loop(tensor_indices, common_axis_index, i, last_index, acc) ==
    IF i > Len(tensor_indices) THEN acc
    ELSE IF \/ last_index = 0
            \/ ~index_eq_except_axis(tensor_indices, last_index, i, common_axis_index)
         THEN compute_indices_loop(tensor_indices, common_axis_index, i + 1, i,
                [ indices |-> Append(acc.indices,
                      copy_index_except_axis(tensor_indices, i, common_axis_index)),
                  offsets |-> Append(acc.offsets, i) ])
         ELSE compute_indices_loop(tensor_indices, common_axis_index, i + 1,
                last_index, acc)

\* compute_indices that closes the offsets at the last row, not after it.
compute_indices_closed_early(tensor_indices, common_axis_index) ==
    LET r == compute_indices_loop(tensor_indices, common_axis_index, 1, 0,
                                  [indices |-> <<>>, offsets |-> <<>>])
    IN  [ indices |-> r.indices,
          offsets |-> Append(r.offsets, Len(tensor_indices)) ]

\* compute_indices: (result_indices, fiber_offsets).  Fiber f holds the rows
\* offsets[f] .. offsets[f + 1] - 1; the closing offset is num_blocks (+ 1 here).
compute_indices(tensor_indices, common_axis_index) ==
    LET r == compute_indices_loop(tensor_indices, common_axis_index, 1, 0,
                                  [indices |-> <<>>, offsets |-> <<>>])
    IN  [ indices |-> r.indices,
          offsets |-> Append(r.offsets, Len(tensor_indices) + 1) ]

(***************************************************************************)
(* The matrix operand.  Its values are a (1, rows, cols) array; the kernel *)
(* views block 0 as a rows x cols matrix.                                  *)
(***************************************************************************)
\* matrix_values.ncols(): the extent of the second dense axis.
matrix_ncols(m) == size(m.dense_axes[2])

\* matrix_values[(r, k)] with r the 0-based row and k the 1-based column.
matrix_get(m, r, k) == m.values[1][r * matrix_ncols(m) + k]

\* matrix_row without the subtraction of the axis's lower bound.
matrix_row_unshifted(index, common_axis) == index

\* The matrix row a tensor index selects: index - common_axis.lower().
matrix_row(index, common_axis) == index - lower(common_axis)

(***************************************************************************)
(* COOTensorMulDenseMatrix.                                                *)
(***************************************************************************)
\* accumulate with the running value dropped.
accumulate_overwrite(value, tensor_value, matrix_value) == tensor_value * matrix_value

\* One `value = value + tensor_value * matrix_value` of the kernels.
accumulate(value, tensor_value, matrix_value) == value + tensor_value * matrix_value

\* The loop `for j in inz_begin..inz_end` of compute_values for one fiber:
\* `row` is the fiber's output row so far.
RECURSIVE coo_fiber_loop(_, _, _, _, _, _, _)
coo_fiber_loop(t, m, common_axis, common_axis_index, j, inz_end, row) ==
    IF j >= inz_end THEN row
    ELSE LET r == matrix_row(t.indices[j][common_axis_index], common_axis)
         IN  coo_fiber_loop(t, m, common_axis, common_axis_index, j + 1, inz_end,
                [k \in 1..matrix_ncols(m) |->
                    accumulate(row[k], t.values[j][1], matrix_get(m, r, k))])

\* compute_values (serial): an F x r array of zeros, then fiber after fiber.
coo_compute_values(t, m, fiber_offsets, common_axis, common_axis_index) ==
    [i \in 1..(Len(fiber_offsets) - 1) |->
        coo_fiber_loop(t, m, common_axis, common_axis_index,
                       fiber_offsets[i], fiber_offsets[i + 1],
                       [k \in 1..matrix_ncols(m) |-> 0])]

\* result_shape that leaves the common axis in place.
result_shape_unchanged(t, m) == t.shape

\* result_shape: the tensor's shape with matrix_shape[0] replaced by matrix_shape[1].
result_shape(t, m) ==
    [i \in 1..Len(t.shape) |->
        IF AxisEq(t.shape[i], m.shape[1]) THEN m.shape[2] ELSE t.shape[i]]

\* The axes of `axes` other than the common axis, in order.
without_axis(axes, common_axis) ==
    SelectSeq(axes, LAMBDA ax : ~AxisEq(ax, common_axis))

\* common_axis_error without the check of the matrix's second axis.
common_axis_error_first_only(t, m) ==
    IF map_axes(m.dense_axes, t.sparse_axes)[1] = 0 THEN "axis not found" ELSE ""

\* The check that maps the common axis: "" when it passes, else the error.
\* matrix_dense_to_tensor_sparse[0] must be found, [1] must not.
common_axis_error(t, m) ==
    LET matrix_dense_to_tensor_sparse == map_axes(m.dense_axes, t.sparse_axes)
    IN  IF matrix_dense_to_tensor_sparse[1] = 0 THEN "axis not found"
        ELSE IF matrix_dense_to_tensor_sparse[2] # 0
             THEN "There must be only one common axis."
             ELSE ""

\* sort_state_error without the check of the last sort key.
sort_state_error_flag_only(t, m) ==
    IF ~sparse_sort_order(t).is_some THEN "The tensor must be sorted" ELSE ""

\* The check of the sort state: "" when it passes, else the error.
sort_state_error(t, m) ==
    IF ~sparse_sort_order(t).is_some THEN "The tensor must be sorted"
    ELSE IF ~last_is(sparse_sort_order(t).value, m.dense_axes[1])
         THEN "The tensor must be sorted along the common axis."
         ELSE ""

\* The dense axes COO-TTM gives its result: smallvec![common_axis.clone()].
coo_result_dense_axes(t, m) == <<m.dense_axes[1]>>

\* COOTensorMulDenseMatrix::execute
coo_execute(t, m) ==
    IF t.dense_axes # <<>> THEN Err("The tensor must be fully sparse.")
    ELSE IF ndim(m) # 2 THEN Err("The matrix must have 2 axes.")
    ELSE IF m.sparse_axes # <<>> THEN Err("The matrix must be fully dense.")
    ELSE IF common_axis_error(t, m) # "" THEN Err(common_axis_error(t, m))
    ELSE IF sort_state_error(t, m) # "" THEN Err(sort_state_error(t, m))
    ELSE
        LET common_axis == m.dense_axes[1]
            common_axis_index == map_axes(m.dense_axes, t.sparse_axes)[1]
            grouped == compute_indices(t.indices, common_axis_index)
        IN  Ok([ shape |-> result_shape(t, m),
                 sparse_axes |-> without_axis(t.sparse_axes, common_axis),
                 dense_axes |-> coo_result_dense_axes(t, m),
                 indices |-> grouped.indices,
                 values |-> coo_compute_values(t, m, grouped.offsets,
                                               common_axis, common_axis_index),
                 sparse_is_sorted |-> TRUE,
                 sparse_sort_order |->
                     without_axis(sparse_sort_order(t).value, common_axis) ])

(***************************************************************************)
(* SemiCOOTensorMulDenseMatrix.                                            *)
(***************************************************************************)
\* dense_block_size: the product of the lengths of the tensor's dense axes.
dense_block_size(t) == Product([d \in 1..Len(t.dense_axes) |-> size(t.dense_axes[d])])

\* scoo_tensor_get reading the first element of the block whatever k is.
scoo_tensor_get_first(t, j, k) == t.values[j][1]

\* tensor_values[(j, k)]: block j seen as a row of dense_block_size elements.
scoo_tensor_get(t, j, k) == t.values[j][k]

\* The loop `for j in inz_begin..inz_end` of compute_values for one chunk:
\* `slab` is the chunk's P x r output, flat, element (k, c) at (k - 1) * r + c.
RECURSIVE scoo_chunk_loop(_, _, _, _, _, _, _)
scoo_chunk_loop(t, m, common_axis, common_axis_index, j, inz_end, slab) ==
    IF j >= inz_end THEN slab
    ELSE LET r == matrix_row(t.indices[j][common_axis_index], common_axis)
             ncols == matrix_ncols(m)
         IN  scoo_chunk_loop(t, m, common_axis, common_axis_index, j + 1, inz_end,
                [x \in 1..(dense_block_size(t) * ncols) |->
                    LET k == ((x - 1) \div ncols) + 1
                        c == ((x - 1) % ncols) + 1
                    IN  accumulate(slab[x], scoo_tensor_get(t, j, k),
                                   matrix_get(m, r, c))])

\* compute_values (serial): an F x P x r array of zeros, then chunk after chunk.
scoo_compute_values(t, m, chunk_offsets, common_axis, common_axis_index) ==
    [i \in 1..(Len(chunk_offsets) - 1) |->
        scoo_chunk_loop(t, m, common_axis, common_axis_index,
                        chunk_offsets[i], chunk_offsets[i + 1],
                        [x \in 1..(dense_block_size(t) * matrix_ncols(m)) |-> 0])]

\* result_dense_axes: the tensor's dense axes, then matrix_shape[1].
scoo_result_dense_axes(t, m) == t.dense_axes \o <<m.shape[2]>>

\* SemiCOOTensorMulDenseMatrix::execute.  (The code runs compute_values when
\* multi_thread is set and compute_values_multi_thread when it is not; the
\* two are modelled apart, this operator is the serial one.)
scoo_execute(t, m) ==
    IF ndim(m) # 2 THEN Err("The matrix must have 2 axes.")
    ELSE IF m.sparse_axes # <<>> THEN Err("The matrix must be fully dense.")
    ELSE IF common_axis_error(t, m) # "" THEN Err(common_axis_error(t, m))
    ELSE IF sort_state_error(t, m) # "" THEN Err(sort_state_error(t, m))
    ELSE IF \E j \in 1..Len(t.indices) : Len(t.values[j]) # dense_block_size(t)
         THEN Err("ShapeError")
    ELSE
        LET common_axis == m.dense_axes[1]
            common_axis_index == map_axes(m.dense_axes, t.sparse_axes)[1]
            grouped == compute_indices(t.indices, common_axis_index)
        IN  Ok([ shape |-> result_shape(t, m),
                 sparse_axes |-> without_axis(t.sparse_axes, common_axis),
                 dense_axes |-> scoo_result_dense_axes(t, m),
                 indices |-> grouped.indices,
                 values |-> scoo_compute_values(t, m, grouped.offsets,
                                                common_axis, common_axis_index),
                 sparse_is_sorted |-> TRUE,
                 sparse_sort_order |->
                     without_axis(sparse_sort_order(t).value, common_axis) ])

(***************************************************************************)
(* The inputs the checks draw from.                                        *)
(***************************************************************************)
\* Axes as AxisBuilder::build() mints them: ids in build order.
axI == [id |-> 0, lower |-> 0, upper |-> 2]

axJ == [id |-> 1, lower |-> 1, upper |-> 3]

axK == [id |-> 2, lower |-> 0, upper |-> 2]

axR == [id |-> 3, lower |-> 0, upper |-> 3]

\* Tensor layouts: a shape and its is_axis_dense mask.
TensorLayouts ==
    { [shape |-> <<axI, axJ>>, is_axis_dense |-> <<FALSE, FALSE>>],
      [shape |-> <<axJ, axI>>, is_axis_dense |-> <<FALSE, FALSE>>],
      [shape |-> <<axJ>>, is_axis_dense |-> <<FALSE>>],
      [shape |-> <<axI, axJ, axK>>, is_axis_dense |-> <<FALSE, FALSE, TRUE>>],
      [shape |-> <<axI, axK, axJ>>, is_axis_dense |-> <<FALSE, TRUE, FALSE>>] }

\* The index rows a tensor over these sparse axes can hold (push_block's range check).
IndexRows(sparse_axes) ==
    { row \in [1..Len(sparse_axes) -> 0..2] :
        \A c \in 1..Len(sparse_axes) :
            sparse_axes[c].lower <= row[c] /\ row[c] < sparse_axes[c].upper }

\* Dense blocks of p elements, flat: two contents that differ in every place.
DenseBlocks(p) == { [x \in 1..p |-> x], [x \in 1..p |-> 2 * (p - x) + 3] }

\* Every permutation of a sequence of at most three axes.
Permutations3(axes) ==
    { [i \in 1..Len(axes) |-> axes[f[i]]] :
        f \in { g \in [1..Len(axes) -> 1..Len(axes)] :
                  \A a, b \in 1..Len(axes) : a # b => g[a] # g[b] } }

\* The tensors a layout admits with at most MaxBlocks blocks, sorted flag and
\* sort order as any constructor or earlier operation may have left them.
Tensors(layout) ==
    LET z == zeros(layout.shape, layout.is_axis_dense)
        blocks == IndexRows(z.sparse_axes) \X DenseBlocks(dense_block_size(z))
    IN  { [z EXCEPT !.indices = [b \in 1..Len(bs) |-> bs[b][1]],
                    !.values = [b \in 1..Len(bs) |-> bs[b][2]],
                    !.sparse_is_sorted = flag,
                    !.sparse_sort_order = order] :
            bs \in UNION { [1..n -> blocks] : n \in 0..MaxBlocks },
            flag \in BOOLEAN,
            order \in Permutations3(z.sparse_axes) }

\* A dense matrix as CreateRandomDenseMatrix builds it, over axes (rows, cols),
\* element (r, c) holding weight^(r * ncols + c): with weight 10 every sum of
\* products of small values shows which matrix elements went into it.
RECURSIVE Power(_, _)
Power(b, e) == IF e = 0 THEN 1 ELSE b * Power(b, e - 1)

DenseMatrix(rows, cols, weight) ==
    [ shape |-> <<rows, cols>>,
      sparse_axes |-> <<>>,
      dense_axes |-> <<rows, cols>>,
      indices |-> << <<>> >>,
      values |-> << [x \in 1..(size(rows) * size(cols)) |-> Power(weight, x - 1)] >>,
      sparse_is_sorted |-> TRUE,
      sparse_sort_order |-> <<>> ]

Matrices ==
    { DenseMatrix(ax[1], ax[2], w) :
        ax \in { <<axJ, axR>>, <<axI, axR>>, <<axR, axJ>>, <<axI, axJ>>,
                 <<axK, axR>>, <<axR, axK>> },
        w \in {1, 10} }

(***************************************************************************)
(* Values of the variables a specification does not use.                   *)
(***************************************************************************)
NoPar ==
    [ multi_thread |-> FALSE, threads |-> 0, overlapped |-> FALSE,
      task |-> <<>>, values |-> <<>>, offsets |-> <<>> ]

NoSort ==
    [ status |-> "idle", order |-> <<>>, stack |-> <<>>, calls |-> <<>>,
      input |-> [indices |-> <<>>, values |-> <<>>] ]

NoHist == [created |-> FALSE, pushed |-> FALSE, sorted_by |-> <<>>]

NoPool == [axes |-> <<>>, counter |-> 0]

NoIter == [status |-> "none"]

NoIo == [status |-> "none"]

NoRand == [status |-> "none"]

NoTracer == [status |-> "none"]

(***************************************************************************)
(* SpecTTM: one TTM call on drawn inputs.                                  *)
(***************************************************************************)
InitTTM ==
    /\ tracer = NoTracer
    /\ rand = NoRand
    /\ tensor \in UNION { Tensors(layout) : layout \in TensorLayouts }
    /\ matrix \in Matrices
    /\ algo \in {"coo", "scoo"}
    /\ phase = "input"
    /\ result = Err("pending")
    /\ par = NoPar
    /\ sort = NoSort
    /\ pool = NoPool
    /\ iter = NoIter
    /\ io = NoIo
    /\ hist = NoHist

\* COOTensorMulDenseMatrix::new(tensor, matrix).execute()
ExecuteCOO ==
    /\ phase = "input"
    /\ algo = "coo"
    /\ result' = coo_execute(tensor, matrix)
    /\ phase' = "done"
    /\ UNCHANGED <<pool, iter, io, tensor, matrix, algo, par, sort, hist, rand, tracer>>

\* SemiCOOTensorMulDenseMatrix::new(tensor, matrix).execute()
ExecuteSCOO ==
    /\ phase = "input"
    /\ algo = "scoo"
    /\ result' = scoo_execute(tensor, matrix)
    /\ phase' = "done"
    /\ UNCHANGED <<pool, iter, io, tensor, matrix, algo, par, sort, hist, rand, tracer>>

NextTTM == ExecuteCOO \/ ExecuteSCOO

SpecTTM == InitTTM /\ [][NextTTM]_vars

(***************************************************************************)
(* Vocabulary of the properties.                                           *)
(***************************************************************************)
\* The columns of indices in the order of the recorded sort key.
KeyColumns(t) ==
    [i \in 1..Len(t.sparse_sort_order) |-> position(t.sparse_axes, t.sparse_sort_order[i])]

\* Row a is at most row b in the lexicographic order over the columns cols.
LexLeq(a, b, cols) ==
    \/ \A i \in 1..Len(cols) : a[cols[i]] = b[cols[i]]
    \/ \E i \in 1..Len(cols) :
          /\ a[cols[i]] < b[cols[i]]
          /\ \A k \in 1..(i - 1) : a[cols[k]] = b[cols[k]]

\* Adjacent rows of indices are ordered under the columns cols.
RowsOrdered(indices, cols) ==
    \A m \in 1..(Len(indices) - 1) : LexLeq(indices[m], indices[m + 1], cols)

\* s without its element at place k.
RemoveAt(s, k) == [i \in 1..(Len(s) - 1) |-> IF i < k THEN s[i] ELSE s[i + 1]]

Ids(axes) == [i \in 1..Len(axes) |-> axes[i].id]

RECURSIVE SumSeq(_)
SumSeq(s) == IF s = <<>> THEN 0 ELSE Head(s) + SumSeq(Tail(s))

\* B[r, c] of the matrix operand, r and c counted from 0.
B(r, c) == matrix.values[1][r * size(matrix.dense_axes[2]) + c + 1]

\* The TTM call has returned a tensor.
TTMDone(kernel) == phase = "done" /\ algo = kernel /\ result.ok

\* Column of the matrix's first axis in the tensor's indices (0: none).
KStar == position(tensor.sparse_axes, matrix.dense_axes[1])

\* The blocks of the input whose non-common coordinates are `coords`.
BlocksAt(coords) ==
    { m \in 1..Len(tensor.indices) : RemoveAt(tensor.indices[m], KStar) = coords }

\* The reference value of output cell (coords, p, c), p and c counted from 1:
\* every block of the input adds its term when it lies at coords.
Reference(coords, p, c) ==
    SumSeq([m \in 1..Len(tensor.indices) |->
        IF m \in BlocksAt(coords)
        THEN tensor.values[m][p]
             * B(tensor.indices[m][KStar] - matrix.dense_axes[1].lower, c - 1)
        ELSE 0])

\* The input rows are sorted as the tensor says they are.
InputSorted == tensor.sparse_is_sorted /\ RowsOrdered(tensor.indices, KeyColumns(tensor))

(***************************************************************************)
(* Properties of the TTM kernels (SpecTTM).                                *)
(***************************************************************************)
\* The distinct tuples of non-common coordinates of the input.
NonCommonTuples ==
    { RemoveAt(tensor.indices[m], KStar) : m \in 1..Len(tensor.indices) }

\* C1: COO-TTM equals the naive reference.  For a fully sparse tensor whose
\* rows are sorted under an order that ends with the common axis, the result
\* holds exactly one block per distinct tuple of non-common coordinates, and
\* cell (f, c) is the sum of A.values[m] * B[A.indices[m, k*] - lower, c] over
\* all blocks m that have the coordinates of block f.
C1_CooEqualsReference ==
    (TTMDone("coo") /\ InputSorted) =>
        LET out == result.tensor
        IN  /\ Len(out.indices) = Cardinality(NonCommonTuples)
            /\ Range(out.indices) = NonCommonTuples
            /\ Len(out.values) = Len(out.indices)
            /\ \A f \in 1..Len(out.indices) :
                  /\ Len(out.values[f]) = size(matrix.dense_axes[2])
                  /\ \A c \in 1..size(matrix.dense_axes[2]) :
                        out.values[f][c] = Reference(out.indices[f], 1, c)

\* Witness of C1: a sorted input of two different blocks of one fiber, merged
\* into one output block.
C1_Witness ==
    /\ TTMDone("coo")
    /\ InputSorted
    /\ Len(tensor.indices) = 2
    /\ tensor.indices[1] # tensor.indices[2]
    /\ Len(result.tensor.indices) = 1
    /\ matrix.values[1][2] = 10

\* C2: sCOO-TTM computes the blockwise contraction.  For a tensor with D >= 0
\* dense axes sorted with the common axis last, the values have one slab of
\* P * r elements per fiber, and entry (f, p, c) is the sum over the blocks m
\* of fiber f of A.values[m, p] * B[A.indices[m, k*] - lower, c].
C2_ScooBlockwiseContraction ==
    (TTMDone("scoo") /\ InputSorted) =>
        LET out == result.tensor
            P == Product([d \in 1..Len(tensor.dense_axes) |->
                            size(tensor.dense_axes[d])])
            r == size(matrix.dense_axes[2])
        IN  /\ Len(out.values) = Len(out.indices)
            /\ Range(out.indices) = NonCommonTuples
            /\ \A f \in 1..Len(out.indices) :
                  /\ Len(out.values[f]) = P * r
                  /\ \A p \in 1..P : \A c \in 1..r :
                        out.values[f][(p - 1) * r + c]
                            = Reference(out.indices[f], p, c)

\* Witness of C2: a sorted input with one dense axis, two different blocks of
\* one fiber merged into one output slab.
C2_Witness ==
    /\ TTMDone("scoo")
    /\ InputSorted
    /\ Len(tensor.dense_axes) = 1
    /\ Len(tensor.indices) = 2
    /\ tensor.indices[1] # tensor.indices[2]
    /\ tensor.values[1] # tensor.values[2]
    /\ Len(result.tensor.indices) = 1
    /\ matrix.values[1][2] = 10

\* The matrix axis that is not the common axis, for a call that succeeded.
FreeAxis == matrix.dense_axes[2]

\* C6: the dense axes of a TTM result are A.dense_axes followed by the
\* matrix's free axis, and every dense axis of the result is in its shape.
C6_ResultDenseAxes ==
    (phase = "done" /\ result.ok) =>
        /\ Ids(result.tensor.dense_axes) = Ids(tensor.dense_axes \o <<FreeAxis>>)
        /\ \A d \in 1..Len(result.tensor.dense_axes) :
              position(result.tensor.shape, result.tensor.dense_axes[d]) # 0

\* The part of C6 the code meets: the semi-COO kernel.
C6_ScooResultDenseAxes ==
    TTMDone("scoo") =>
        /\ Ids(result.tensor.dense_axes) = Ids(tensor.dense_axes \o <<FreeAxis>>)
        /\ \A d \in 1..Len(result.tensor.dense_axes) :
              position(result.tensor.shape, result.tensor.dense_axes[d]) # 0

\* The number of fibers: maximal runs of adjacent rows that agree on every
\* column but the common one.
NumFibers ==
    Cardinality({ m \in 1..Len(tensor.indices) :
        m = 1 \/ RemoveAt(tensor.indices[m], KStar)
                    # RemoveAt(tensor.indices[m - 1], KStar) })

\* C7: the result's shape is A.shape with the common axis replaced in place
\* by the free axis, its sparse_axes and sparse_sort_order are A's without the
\* common axis in the same relative order, it is marked sorted, and it has
\* F blocks, F at most the number of blocks of A.
C7_ResultLayout ==
    (phase = "done" /\ result.ok) =>
        LET out == result.tensor
            common == matrix.dense_axes[1]
        IN  /\ Ids(out.shape) =
                  [i \in 1..Len(tensor.shape) |->
                      IF tensor.shape[i].id = common.id THEN FreeAxis.id
                      ELSE tensor.shape[i].id]
            /\ Ids(out.sparse_axes) = RemoveAt(Ids(tensor.sparse_axes), KStar)
            /\ Ids(out.sparse_sort_order) =
                  RemoveAt(Ids(tensor.sparse_sort_order),
                           position(tensor.sparse_sort_order, common))
            /\ out.sparse_is_sorted
            /\ sparse_sort_order(out).is_some
            /\ Len(out.indices) = NumFibers
            /\ Len(out.values) = NumFibers
            /\ NumFibers <= Len(tensor.indices)

\* Witness of C7: the common axis is not the last axis of a three-axis shape,
\* and two blocks fall into one fiber.
C7_Witness ==
    /\ phase = "done"
    /\ result.ok
    /\ Len(tensor.shape) = 3
    /\ position(tensor.shape, matrix.dense_axes[1]) = 2
    /\ Len(tensor.indices) = 2
    /\ Len(result.tensor.indices) = 1

\* Axis `axis` is one of the tensor's sparse axes.
InSparseAxes(axis) == position(tensor.sparse_axes, axis) # 0

\* Everything TTM asks for but the position of the common axis holds: the
\* kernel fits the tensor, and the tensor is sorted with `axis` as last key.
ReadyFor(axis) ==
    /\ algo = "coo" => tensor.dense_axes = <<>>
    /\ tensor.sparse_is_sorted
    /\ last_is(tensor.sparse_sort_order, axis)

\* The call contracted `common` and kept `free` as the free axis.
Contracted(common, free) ==
    /\ result.ok
    /\ position(result.tensor.sparse_axes, common) = 0
    /\ position(result.tensor.shape, common) = 0
    /\ position(result.tensor.shape, free) # 0

Failed == ~result.ok /\ result.tensor = NoTensor

\* C8 as claimed: the common axis is found in either position of the matrix.
C8_CommonAxisEitherPosition ==
    phase = "done" =>
        LET first == matrix.dense_axes[1]
            second == matrix.dense_axes[2]
        IN  /\ (InSparseAxes(first) /\ ~InSparseAxes(second) /\ ReadyFor(first))
                  => Contracted(first, second)
            /\ (InSparseAxes(second) /\ ~InSparseAxes(first) /\ ReadyFor(second))
                  => Contracted(second, first)
            /\ (~InSparseAxes(first) /\ ~InSparseAxes(second)) => Failed
            /\ (InSparseAxes(first) /\ InSparseAxes(second)) => Failed

\* C8: TTM takes the matrix's first axis as the common axis.  When the first
\* axis is one of A.sparse_axes and the second is not, the first is contracted
\* and the second is the free axis; when the first axis is not one of
\* A.sparse_axes (also when the second is), or when both are, execute returns
\* an error and no tensor.
C8_CommonAxisFirstPosition ==
    phase = "done" =>
        LET first == matrix.dense_axes[1]
            second == matrix.dense_axes[2]
        IN  /\ (InSparseAxes(first) /\ ~InSparseAxes(second) /\ ReadyFor(first))
                  => Contracted(first, second)
            /\ ~InSparseAxes(first) => Failed
            /\ (InSparseAxes(first) /\ InSparseAxes(second)) => Failed

\* Witness of C8: only the matrix's second axis is a sparse axis of the
\* tensor, which is sorted along it, and the call fails.
C8_Witness ==
    /\ phase = "done"
    /\ InSparseAxes(matrix.dense_axes[2])
    /\ ~InSparseAxes(matrix.dense_axes[1])
    /\ ReadyFor(matrix.dense_axes[2])
    /\ Len(tensor.indices) > 0
    /\ Failed

SortStateErrors ==
    {"The tensor must be sorted", "The tensor must be sorted along the common axis."}

\* C9: TTM returns an error and no tensor whenever sparse_sort_order() is
\* nothing or the last axis of the sort order is not the common axis, and it
\* never fails on the sort state when the tensor is sorted with the common
\* axis as last key.
C9_SortStateChecked ==
    phase = "done" =>
        LET common == matrix.dense_axes[1]
            sorted_along == /\ sparse_sort_order(tensor).is_some
                            /\ last_is(sparse_sort_order(tensor).value, common)
        IN  /\ ~sorted_along => Failed
            /\ sorted_along => result.err \notin SortStateErrors
            /\ (matrix.shape = matrix.dense_axes /\ InSparseAxes(common)
                  /\ ~InSparseAxes(matrix.dense_axes[2])
                  /\ (algo = "coo" => tensor.dense_axes = <<>>))
                  => (result.err \in SortStateErrors <=> ~sorted_along)

\* Witness of C9: rows in order and the common axis present, but the recorded
\* sort order ends with another axis; the call fails on the sort state.
C9_Witness ==
    /\ phase = "done"
    /\ tensor.sparse_is_sorted
    /\ InSparseAxes(matrix.dense_axes[1])
    /\ ~last_is(tensor.sparse_sort_order, matrix.dense_axes[1])
    /\ Len(tensor.indices) = 2
    /\ result.err = "The tensor must be sorted along the common axis."
    /\ result.tensor = NoTensor

(***************************************************************************)
(* SortCOOTensor: a quick sort over the rows of (indices, values).         *)
(* from, to, pivot, i and j are the code's 0-based numbers; row x of the   *)
(* code is indices[x + 1] here.  `order` lists columns (ndarray::Axis),    *)
(* most significant first, as 1-based column numbers.                      *)
(***************************************************************************)
\* Deepest call stack of sort_subtensor the model follows; a call beyond it
\* stands for a recursion that goes on until the thread's stack is used up.
MaxStack == 6

\* index_less_than: false at the first key column where a is not below b.
index_less_than(order, a, b) ==
    \A x \in 1..Len(order) : ~(a[order[x]] >= b[order[x]])

\* `while index_less_than(row(i), row(pivot)) { i += 1 }`; indices.row(i)
\* panics when i is not a row.
RECURSIVE scan_i(_, _)
scan_i(st, order) ==
    IF st.i >= Len(st.indices) THEN [st EXCEPT !.panic = TRUE]
    ELSE IF index_less_than(order, st.indices[st.i + 1], st.indices[st.pivot + 1])
         THEN scan_i([st EXCEPT !.i = @ + 1], order)
         ELSE st

\* `while index_less_than(row(j), row(pivot)) { j -= 1 }`; j is a usize:
\* `j -= 1` at 0 panics in a debug build and wraps in a release build, where
\* the next indices.row(j) panics: either way the scan ends in a panic.
RECURSIVE scan_j(_, _)
scan_j(st, order) ==
    IF st.j < 0 \/ st.j >= Len(st.indices) THEN [st EXCEPT !.panic = TRUE]
    ELSE IF index_less_than(order, st.indices[st.j + 1], st.indices[st.pivot + 1])
         THEN scan_j([st EXCEPT !.j = @ - 1], order)
         ELSE st

\* swap_rows that exchanges the index rows and leaves the values in place.
swap_rows_indices_only(st) ==
    [st EXCEPT
        !.pivot = IF st.pivot = st.i THEN st.j
                  ELSE IF st.pivot = st.j THEN st.i ELSE @,
        !.indices = [@ EXCEPT ![st.i + 1] = st.indices[st.j + 1],
                              ![st.j + 1] = st.indices[st.i + 1]],
        !.swaps = @ + 1,
        !.i = @ + 1,
        !.j = @ - 1]

\* The body of `if i < j`: the pivot follows its row, rows i and j of indices
\* and values(i), values(j) are swapped, i += 1, j -= 1.
swap_rows(st) ==
    [st EXCEPT
        !.pivot = IF st.pivot = st.i THEN st.j
                  ELSE IF st.pivot = st.j THEN st.i ELSE @,
        !.indices = [@ EXCEPT ![st.i + 1] = st.indices[st.j + 1],
                              ![st.j + 1] = st.indices[st.i + 1]],
        !.values = [@ EXCEPT ![st.i + 1] = st.values[st.j + 1],
                             ![st.j + 1] = st.values[st.i + 1]],
        !.swaps = @ + 1,
        !.i = @ + 1,
        !.j = @ - 1]

\* `while i < j { ... }` of sort_subtensor.
RECURSIVE partition_loop(_, _)
partition_loop(st, order) ==
    IF st.panic \/ ~(st.i < st.j) THEN st
    ELSE LET s1 == scan_i(st, order)
             s2 == IF s1.panic THEN s1 ELSE scan_j(s1, order)
         IN  IF s2.panic THEN s2
             ELSE IF s2.i < s2.j THEN partition_loop(swap_rows(s2), order)
             ELSE partition_loop(s2, order)

\* sort_subtensor from its entry to its first recursive call, for from < to.
partition(indices, values, order, from, to) ==
    partition_loop([ indices |-> indices, values |-> values,
                     pivot |-> (from + to) \div 2, i |-> from, j |-> to - 1,
                     swaps |-> 0, panic |-> FALSE ], order)

\* The guard that ends the recursion: `if from >= to { return; }`.
base_case(from, to) == from >= to

Frame(from, to) == [from |-> from, to |-> to, i |-> 0, j |-> 0, pc |-> "enter"]

\* unsafe { tensor.set_sort_order() }.clone_from(&self.order): the tensor
\* records the order it is being sorted by, and counts as sorted.
set_sort_order(t, order) ==
    [t EXCEPT !.sparse_sort_order = [x \in 1..Len(order) |-> t.sparse_axes[order[x]]],
              !.sparse_is_sorted = TRUE]

(***************************************************************************)
(* SpecSort: the life of one fully sparse tensor: zeros, push_block, Sort. *)
(***************************************************************************)
SortLayouts ==
    { [shape |-> <<axI, axJ>>, is_axis_dense |-> <<FALSE, FALSE>>],
      [shape |-> <<axJ>>, is_axis_dense |-> <<FALSE>>] }

\* The sparse axes of a shape in shape order.
FreshOrder(layout) ==
    SelectSeq(layout.shape,
              LAMBDA ax : \E x \in 1..Len(layout.shape) :
                            layout.shape[x] = ax /\ ~layout.is_axis_dense[x])

InitSort ==
    /\ tracer = NoTracer
    /\ rand = NoRand
    /\ \E layout \in SortLayouts :
          /\ tensor = zeros(layout.shape, layout.is_axis_dense)
          /\ hist = [created |-> TRUE, pushed |-> FALSE, sorted_by |-> FreshOrder(layout)]
    /\ matrix = NoTensor
    /\ algo = "sort"
    /\ phase = "input"
    /\ result = Err("pending")
    /\ par = NoPar
    /\ sort = NoSort
    /\ pool = NoPool
    /\ iter = NoIter
    /\ io = NoIo

\* tensor = COOTensor::zeros(shape, is_axis_dense), replacing the tensor.
Zeros ==
    /\ phase = "input"
    /\ \E layout \in SortLayouts :
          /\ tensor' = zeros(layout.shape, layout.is_axis_dense)
          /\ hist' = [created |-> TRUE, pushed |-> FALSE, sorted_by |-> FreshOrder(layout)]
    /\ sort' = NoSort
    /\ UNCHANGED <<pool, iter, io, matrix, algo, phase, result, par, rand, tracer>>

\* tensor.push_block(sparse_index, value) with an index and a block it accepts.
PushBlock ==
    /\ phase = "input"
    /\ Len(tensor.indices) < MaxBlocks
    /\ \E sparse_index \in IndexRows(tensor.sparse_axes), value \in DenseBlocks(1) :
          /\ push_block_accepts(tensor, sparse_index, value)
          /\ tensor' = push_block(tensor, sparse_index, value)
    /\ hist' = [hist EXCEPT !.pushed = TRUE]
    /\ sort' = NoSort
    /\ UNCHANGED <<pool, iter, io, matrix, algo, phase, result, par, rand, tracer>>

\* SortCOOTensor::execute up to its call of sort_subtensor(.., 0, values.len()).
SortBegin ==
    /\ phase = "input"
    /\ \E order \in Permutations3([x \in 1..ndim(tensor) |-> x]) :
          /\ tensor' = set_sort_order(tensor, order)
          /\ sort' = [ status |-> "running", order |-> order,
                       stack |-> <<Frame(0, Len(tensor.values))>>,
                       calls |-> <<>>,
                       input |-> [indices |-> tensor.indices,
                                  values |-> tensor.values] ]
          /\ hist' = [hist EXCEPT !.pushed = FALSE,
                         !.sorted_by = [x \in 1..Len(order) |-> tensor.sparse_axes[order[x]]]]
    /\ phase' = "sorting"
    /\ UNCHANGED <<pool, iter, io, matrix, algo, result, par, rand, tracer>>

\* A call of sort_subtensor(.., from, to) made by the frame on top of the
\* stack; `calls` keeps the last call as (caller range, callee range), and
\* `input` the rows and values execute was called on.
Call(st, from, to) ==
    IF Len(st.stack) >= MaxStack
    THEN [st EXCEPT !.status = "overflow"]
    ELSE [st EXCEPT !.stack = Append(@, Frame(from, to)),
                    !.calls = << st.stack[Len(st.stack)].to - st.stack[Len(st.stack)].from,
                                 to - from >>]

Return(st) ==
    IF Len(st.stack) = 1
    THEN [st EXCEPT !.stack = <<>>, !.status = "returned"]
    ELSE [st EXCEPT !.stack = SubSeq(@, 1, Len(@) - 1)]

\* One step of the running sort: the frame on top of the stack runs up to its
\* next call or to its return.
SortStep ==
    /\ phase = "sorting"
    /\ sort.status = "running"
    /\ LET top == Len(sort.stack)
           f == sort.stack[top]
       IN  CASE f.pc = "enter" /\ base_case(f.from, f.to) ->
                  /\ sort' = Return(sort)
                  /\ UNCHANGED tensor
             [] f.pc = "enter" /\ ~base_case(f.from, f.to) ->
                  LET st == partition(tensor.indices, tensor.values, sort.order,
                                      f.from, f.to)
                  IN  /\ tensor' = [tensor EXCEPT !.indices = st.indices,
                                                  !.values = st.values]
                      /\ sort' =
                            IF st.panic THEN [sort EXCEPT !.status = "panicked"]
                            ELSE Call([sort EXCEPT !.stack[top] =
                                          [f EXCEPT !.i = st.i, !.j = st.j,
                                                    !.pc = "first"]],
                                      f.from, st.j)
             [] f.pc = "first" ->
                  /\ sort' = Call([sort EXCEPT !.stack[top].pc = "second"], f.i, f.to)
                  /\ UNCHANGED tensor
             [] f.pc = "second" ->
                  /\ sort' = Return(sort)
                  /\ UNCHANGED tensor
    /\ phase' = IF sort'.status = "returned" THEN "input" ELSE phase
    /\ UNCHANGED <<pool, iter, io, matrix, algo, result, par, hist, rand, tracer>>

NextSort == Zeros \/ PushBlock \/ SortBegin \/ SortStep

SpecSort == InitSort /\ [][NextSort]_vars

(***************************************************************************)
(* Properties of the sort and of the sorted flag (SpecSort).               *)
(***************************************************************************)
\* execute has stopped: it returned, it panicked, or its recursion went on
\* until the stack was used up.
SortEnded == sort.status \in {"returned", "panicked", "overflow"}

\* C3: after SortCOOTensor::execute with key `order`, every row of indices is
\* at most the row after it in the lexicographic order induced by `order`.
C3_RowsOrderedAfterSort ==
    SortEnded => RowsOrdered(tensor.indices, sort.order)

\* C4: SortCOOTensor::execute terminates.  With at most one block it returns
\* without a recursive call, and every recursive call of sort_subtensor is on
\* a strictly smaller row range than its caller's, so the recursion ends.
C4_SortTerminates ==
    /\ sort.status # "overflow"
    /\ sort.calls # <<>> => sort.calls[2] < sort.calls[1]
    /\ (Len(tensor.indices) <= 1 /\ sort.status # "idle") => sort.calls = <<>>

\* C10: sparse_sort_order() returns an order exactly when no push_block has
\* succeeded since the tensor was created by zeros or since the last Sort;
\* the order is the sparse axes in shape order for a fresh tensor and the
\* order given to the last Sort otherwise.
C10_SortedFlagProtocol ==
    /\ sparse_sort_order(tensor).is_some <=> ~hist.pushed
    /\ sparse_sort_order(tensor).is_some =>
          Ids(sparse_sort_order(tensor).value) = Ids(hist.sorted_by)

\* Witness of C10: a block was pushed, then the tensor was handed to Sort
\* with an order other than its shape order; execute has stored the order,
\* and the tensor reports it.
C10_Witness ==
    /\ sort.status # "idle"
    /\ Len(tensor.indices) >= 1
    /\ sparse_sort_order(tensor).is_some
    /\ Ids(sparse_sort_order(tensor).value) = <<axJ.id, axI.id>>
    /\ Ids(tensor.sparse_axes) = <<axI.id, axJ.id>>

(***************************************************************************)
(* The multi-threaded kernels.  rayon hands every fiber index 0..F to      *)
(* exactly one task; a task runs the loops of its fiber to their end on    *)
(* one thread, and at most `threads` tasks are in progress at a time.  The *)
(* order in which fibers are taken and the way the steps of running tasks  *)
(* interleave are free.  (with_min_len(256) of the semi-COO kernel only    *)
(* removes schedules; the model keeps them all.)  The output array is      *)
(* shared, and the statement `*value = value + tensor_value * matrix_value` *)
(* of a task is two steps on it: the load of `value`, then the store.      *)
(***************************************************************************)
\* Largest number of worker threads of the pool.
MaxThreads == 2

\* Which function computes the values.  COOTensorMulDenseMatrix runs
\* compute_values_multi_thread when multi_thread is set;
\* SemiCOOTensorMulDenseMatrix runs it when multi_thread is NOT set.
runs_parallel(kernel, multi_thread) ==
    IF kernel = "coo" THEN multi_thread ELSE ~multi_thread

\* execute with the values computed by compute_values.
execute_serial(kernel, t, m) ==
    IF kernel = "coo" THEN coo_execute(t, m) ELSE scoo_execute(t, m)

\* The number of cells one block of the input adds to: the cells of an
\* output row (COO) or of an output slab (semi-COO).
task_cells(kernel, t, m) ==
    IF kernel = "coo" THEN matrix_ncols(m) ELSE dense_block_size(t) * matrix_ncols(m)

\* task_row with every task but the first writing the row of the task before it.
task_row_neighbour(i) == IF i > 1 THEN i - 1 ELSE i

\* task_row with every task writing the first row.
task_row_first(i) == 1

\* The output row (slab) the task of fiber i writes: `get((i, k))` in the COO
\* kernel, the i-th item of outer_iter_mut().enumerate() in the semi-COO one.
task_row(i) == i

\* `value.clone()`: the task of fiber i loads cell x of its output row.
task_load(values, i, x) == values[task_row(i)][x]

\* The store of the innermost statement of a COO task: fiber i, input block
\* j, column k, `loaded` being the value the task read.
coo_task_accumulate(values, loaded, t, m, common_axis, common_axis_index, i, j, k) ==
    LET r == matrix_row(t.indices[j][common_axis_index], common_axis)
    IN  [values EXCEPT ![task_row(i)][k] =
            accumulate(loaded, t.values[j][1], matrix_get(m, r, k))]

\* The store of the innermost statement of a semi-COO task: chunk i, input
\* block j, and cell x = (k, c) of the slab, flat.
scoo_task_accumulate(values, loaded, t, m, common_axis, common_axis_index, i, j, x) ==
    LET r == matrix_row(t.indices[j][common_axis_index], common_axis)
        ncols == matrix_ncols(m)
        k == ((x - 1) \div ncols) + 1
        c == ((x - 1) % ncols) + 1
    IN  [values EXCEPT ![task_row(i)][x] =
            accumulate(loaded, scoo_tensor_get(t, j, k), matrix_get(m, r, c))]

\* A task that has not been taken by a thread yet.
task_todo == [pc |-> "todo", j |-> 0, x |-> 0, loaded |-> 0]

\* A task enters `for j in inz_begin..inz_end` and the loops inside it.
task_begin(offsets, i, cells) ==
    IF offsets[i] >= offsets[i + 1] \/ cells = 0
    THEN [pc |-> "done", j |-> offsets[i + 1], x |-> 1, loaded |-> 0]
    ELSE [pc |-> "load", j |-> offsets[i], x |-> 1, loaded |-> 0]

\* The loop counters after one innermost statement.
task_advance(tk, inz_end, cells) ==
    IF tk.x < cells THEN [pc |-> "load", j |-> tk.j, x |-> tk.x + 1, loaded |-> 0]
    ELSE IF tk.j + 1 >= inz_end
         THEN [pc |-> "done", j |-> inz_end, x |-> 1, loaded |-> 0]
    ELSE [pc |-> "load", j |-> tk.j + 1, x |-> 1, loaded |-> 0]

\* The tasks a thread is working on.
tasks_in_progress(p) == { i \in 1..Len(p.task) : p.task[i].pc \in {"load", "store"} }

(***************************************************************************)
(* SpecPar: one TTM call whose values may be computed by parallel tasks.   *)
(***************************************************************************)
\* The layout each kernel is given here.
ParLayout(kernel) ==
    IF kernel = "coo"
    THEN [shape |-> <<axI, axJ>>, is_axis_dense |-> <<FALSE, FALSE>>]
    ELSE [shape |-> <<axI, axJ, axK>>, is_axis_dense |-> <<FALSE, FALSE, TRUE>>]

InitPar ==
    /\ tracer = NoTracer
    /\ rand = NoRand
    /\ algo \in {"coo", "scoo"}
    /\ tensor \in Tensors(ParLayout(algo))
    /\ matrix = DenseMatrix(axJ, axR, 10)
    /\ phase = "input"
    /\ result = Err("pending")
    /\ par \in { [NoPar EXCEPT !.multi_thread = flag, !.threads = n] :
                    flag \in BOOLEAN, n \in 1..MaxThreads }
    /\ sort = NoSort
    /\ pool = NoPool
    /\ iter = NoIter
    /\ io = NoIo
    /\ hist = NoHist

\* execute up to the point where the values are computed: an error or the
\* serial path ends the call at once, the parallel path allocates the zeroed
\* output and makes one task per fiber.
ParExecute ==
    /\ phase = "input"
    /\ LET serial == execute_serial(algo, tensor, matrix)
       IN  IF ~serial.ok \/ ~runs_parallel(algo, par.multi_thread)
           THEN /\ result' = serial
                /\ phase' = "done"
                /\ par' = par
           ELSE LET common_axis_index == map_axes(matrix.dense_axes, tensor.sparse_axes)[1]
                    grouped == compute_indices(tensor.indices, common_axis_index)
                    num_fibers == Len(grouped.indices)
                    cells == task_cells(algo, tensor, matrix)
                IN  /\ par' = [par EXCEPT
                                 !.offsets = grouped.offsets,
                                 !.values = [i \in 1..num_fibers |-> [x \in 1..cells |-> 0]],
                                 !.task = [i \in 1..num_fibers |-> task_todo]]
                    /\ phase' = "running"
                    /\ result' = result
    /\ UNCHANGED <<pool, iter, io, tensor, matrix, algo, sort, hist, rand, tracer>>

\* A free thread takes fiber i.
TaskStart(i) ==
    /\ phase = "running"
    /\ par.task[i].pc = "todo"
    /\ Cardinality(tasks_in_progress(par)) < par.threads
    /\ par' = [par EXCEPT
                 !.task[i] = task_begin(par.offsets, i, task_cells(algo, tensor, matrix)),
                 !.overlapped = @ \/ tasks_in_progress(par) # {}]
    /\ UNCHANGED <<pool, iter, io, tensor, matrix, algo, phase, result, sort, hist, rand, tracer>>

\* The task of fiber i reads the cell its next statement adds to.
TaskLoad(i) ==
    /\ phase = "running"
    /\ par.task[i].pc = "load"
    /\ par' = [par EXCEPT
                 !.task[i] = [@ EXCEPT !.pc = "store",
                                       !.loaded = task_load(par.values, i, par.task[i].x)]]
    /\ UNCHANGED <<pool, iter, io, tensor, matrix, algo, phase, result, sort, hist, rand, tracer>>

\* The task of fiber i writes the sum back and moves its loop counters on.
TaskStore(i) ==
    /\ phase = "running"
    /\ par.task[i].pc = "store"
    /\ LET common_axis == matrix.dense_axes[1]
           common_axis_index == map_axes(matrix.dense_axes, tensor.sparse_axes)[1]
           tk == par.task[i]
       IN  par' = [par EXCEPT
                     !.values =
                        IF algo = "coo"
                        THEN coo_task_accumulate(par.values, tk.loaded, tensor, matrix,
                                                 common_axis, common_axis_index,
                                                 i, tk.j, tk.x)
                        ELSE scoo_task_accumulate(par.values, tk.loaded, tensor, matrix,
                                                  common_axis, common_axis_index,
                                                  i, tk.j, tk.x),
                     !.task[i] = task_advance(tk, par.offsets[i + 1],
                                              task_cells(algo, tensor, matrix))]
    /\ UNCHANGED <<pool, iter, io, tensor, matrix, algo, phase, result, sort, hist, rand, tracer>>

\* The parallel iterator returns once every task is over; execute wraps the
\* shared output into the result tensor.
ParJoin ==
    /\ phase = "running"
    /\ \A i \in 1..Len(par.task) : par.task[i].pc = "done"
    /\ result' = Ok([execute_serial(algo, tensor, matrix).tensor
                        EXCEPT !.values = par.values])
    /\ phase' = "done"
    /\ UNCHANGED <<pool, iter, io, tensor, matrix, algo, par, sort, hist, rand, tracer>>

NextPar ==
    \/ ParExecute
    \/ \E i \in 1..Len(par.task) : TaskStart(i)
    \/ \E i \in 1..Len(par.task) : TaskLoad(i)
    \/ \E i \in 1..Len(par.task) : TaskStore(i)
    \/ ParJoin

SpecPar == InitPar /\ [][NextPar]_vars

(***************************************************************************)
(* Properties of the multi-threaded kernels (SpecPar).                     *)
(***************************************************************************)
\* The call has returned a tensor whose values the parallel tasks computed.
ParallelDone ==
    phase = "done" /\ result.ok /\ runs_parallel(algo, par.multi_thread)

\* C5: parallel TTM equals serial TTM.  For the same inputs the values the
\* multi-threaded path of COO-TTM and of semi-COO-TTM returns, once all
\* tasks have joined, equal cell by cell the values of the serial path,
\* whatever the interleaving, the assignment of fibers to threads and the
\* number of threads.
C5_ParallelEqualsSerial ==
    ParallelDone =>
        LET serial == execute_serial(algo, tensor, matrix).tensor.values
            parallel == result.tensor.values
        IN  /\ Len(parallel) = Len(serial)
            /\ \A i \in 1..Len(serial) :
                  /\ Len(parallel[i]) = Len(serial[i])
                  /\ \A x \in 1..Len(serial[i]) : parallel[i][x] = serial[i][x]

\* Witness of C5: a semi-COO call with two fibers whose tasks were in
\* progress at the same time has joined, the second slab holding sums.
C5_Witness ==
    /\ ParallelDone
    /\ algo = "scoo"
    /\ Len(par.task) >= 2
    /\ par.overlapped
    /\ \E x \in 1..Len(result.tensor.values[2]) : result.tensor.values[2][x] > 0

(***************************************************************************)
(* SpecPush: push_block called with any index and any block, good or bad.  *)
(* A block handed to push_block is an array view: a shape and its flat     *)
(* C-order data.  A failed assertion is a panic; the tensor is then what   *)
(* the statements executed before the panic have made of it.               *)
(***************************************************************************)
\* values.shape()[1..]: the sizes of the dense axes, as zeros lays them out.
block_shape(t) == [d \in 1..Len(t.dense_axes) |-> size(t.dense_axes[d])]

\* push_block_call clearing the sorted flag before its assertions.
push_block_call_clears_first(t, sparse_index, block) ==
    IF push_block_accepts(t, sparse_index, block.data) /\ block.shape = block_shape(t)
    THEN [panicked |-> FALSE, tensor |-> push_block(t, sparse_index, block.data)]
    ELSE [panicked |-> TRUE, tensor |-> [t EXCEPT !.sparse_is_sorted = FALSE]]

\* One call of COOTensor::push_block: the three assertions, then the body.
push_block_call(t, sparse_index, block) ==
    IF push_block_accepts(t, sparse_index, block.data) /\ block.shape = block_shape(t)
    THEN [panicked |-> FALSE, tensor |-> push_block(t, sparse_index, block.data)]
    ELSE [panicked |-> TRUE, tensor |-> t]

PushLayouts ==
    { [shape |-> <<axI, axJ>>, is_axis_dense |-> <<FALSE, FALSE>>],
      [shape |-> <<axI, axK, axR>>, is_axis_dense |-> <<FALSE, TRUE, TRUE>>] }

\* Index arguments: one or two coordinates, in and out of the axes' ranges.
PushIndices == UNION { [1..n -> 0..3] : n \in 1..2 }

\* Block arguments: views of several shapes over their flat data.
PushBlocks ==
    { [shape |-> sh, data |-> d] :
        sh \in { <<>>, <<2>>, <<2, 3>>, <<3, 2>>, <<6>> },
        d \in UNION { DenseBlocks(n) : n \in {1, 2, 6} } }

\* An array view holds as many elements as its shape says.
WellFormedBlocks == { b \in PushBlocks : Len(b.data) = Product(b.shape) }

NoCall == [called |-> FALSE, panicked |-> FALSE, before |-> NoTensor,
           sparse_index |-> <<>>, block |-> [shape |-> <<>>, data |-> <<>>]]

InitPush ==
    /\ tracer = NoTracer
    /\ rand = NoRand
    /\ \E layout \in PushLayouts : tensor = zeros(layout.shape, layout.is_axis_dense)
    /\ matrix = NoTensor
    /\ algo = "push"
    /\ phase = "input"
    /\ result = Err("pending")
    /\ par = NoPar
    /\ sort = NoSort
    /\ pool = NoPool
    /\ iter = NoIter
    /\ io = NoIo
    /\ hist = NoCall

\* tensor.push_block(sparse_index, block); a panic is caught by the caller,
\* who goes on using the tensor.
PushBlockCall ==
    /\ Len(tensor.indices) < MaxBlocks
    /\ \E sparse_index \in PushIndices, block \in WellFormedBlocks :
          LET call == push_block_call(tensor, sparse_index, block)
          IN  /\ tensor' = call.tensor
              /\ hist' = [called |-> TRUE, panicked |-> call.panicked, before |-> tensor,
                          sparse_index |-> sparse_index, block |-> block]
    /\ UNCHANGED <<pool, iter, io, matrix, algo, phase, result, par, sort, rand, tracer>>

NextPush == PushBlockCall

SpecPush == InitPush /\ [][NextPush]_vars

(***************************************************************************)
(* Properties of push_block (SpecPush).                                    *)
(***************************************************************************)
\* The last call's index has a length other than the number of sparse axes.
BadIndexLength == Len(hist.sparse_index) # Len(hist.before.sparse_axes)

\* Some coordinate of the last call's index is outside its axis.
BadCoordinate ==
    \E c \in 1..Len(hist.sparse_index) :
        /\ c <= Len(hist.before.sparse_axes)
        /\ \/ hist.sparse_index[c] < hist.before.sparse_axes[c].lower
           \/ hist.sparse_index[c] >= hist.before.sparse_axes[c].upper

\* The last call's block has a shape other than the shape of the dense axes.
BadBlockShape ==
    hist.block.shape #
        [d \in 1..Len(hist.before.dense_axes) |->
            hist.before.dense_axes[d].upper - hist.before.dense_axes[d].lower]

\* C11: push_block fails when the index length is not the number of sparse
\* axes, when a coordinate is outside its axis, or when the block's shape is
\* not the dense axes' shape; a failing call leaves the tensor as it was, a
\* succeeding one appends one row to indices and one block to values.
C11_PushBlockAtomic ==
    hist.called =>
        /\ hist.panicked <=> (BadIndexLength \/ BadCoordinate \/ BadBlockShape)
        /\ hist.panicked => tensor = hist.before
        /\ ~hist.panicked =>
              /\ tensor.indices = Append(hist.before.indices, hist.sparse_index)
              /\ tensor.values = Append(hist.before.values, hist.block.data)
              /\ tensor.shape = hist.before.shape
              /\ tensor.sparse_axes = hist.before.sparse_axes
              /\ tensor.dense_axes = hist.before.dense_axes

\* Witness of C11: on a tensor that holds a block, a call with a good index
\* and a block of the transposed shape has failed.
C11_Witness ==
    /\ hist.called
    /\ hist.panicked
    /\ Len(tensor.indices) = 1
    /\ ~BadIndexLength
    /\ ~BadCoordinate
    /\ hist.block.shape = <<3, 2>>
    /\ block_shape(tensor) = <<2, 3>>

(***************************************************************************)
(* SpecAxis: axes made by AxisBuilder and by the methods of Axis.  An axis *)
(* here carries its label too: [id, label, lower, upper].  COUNTER is an   *)
(* AtomicI64; MaxAxes keeps it far from the 2^63 builds after which        *)
(* fetch_add wraps.  pool.root is history: the build each axis goes back   *)
(* to through plain clones.                                                *)
(***************************************************************************)
\* Largest number of axes alive at once.
MaxAxes == 4

\* AxisBuilder::from(&axis): the label and the range, not the id.
builder_from(axis) == [label |-> axis.label, range |-> <<axis.lower, axis.upper>>]

\* build that reads COUNTER and leaves it as it was.
build_without_add(builder, counter) ==
    [ axis |-> [id |-> counter, label |-> builder.label,
                lower |-> builder.range[1], upper |-> builder.range[2]],
      counter |-> counter ]

\* AxisBuilder::build: the id is COUNTER.fetch_add(1), the value before the add.
build(builder, counter) ==
    [ axis |-> [id |-> counter, label |-> builder.label,
                lower |-> builder.range[1], upper |-> builder.range[2]],
      counter |-> counter + 1 ]

\* #[derive(Clone)] on Axis: every field is copied, the id too.
clone(axis) == axis

\* Axis::clone_with_label
clone_with_label(axis, label, counter) ==
    build([builder_from(axis) EXCEPT !.label = Some(label)], counter)

\* clone_with_range that copies the axis and swaps the range in place.
clone_with_range_in_place(axis, range, counter) ==
    [ axis |-> [axis EXCEPT !.lower = range[1], !.upper = range[2]],
      counter |-> counter ]

\* Axis::clone_with_range
clone_with_range(axis, range, counter) ==
    build([builder_from(axis) EXCEPT !.range = range], counter)

min(a, b) == IF a <= b THEN a ELSE b

max(a, b) == IF a >= b THEN a ELSE b

\* Axis::extend: a new unlabelled axis over the hull of the two ranges.
extend(self, other, counter) ==
    build([label |-> None,
           range |-> <<min(self.lower, other.lower), max(self.upper, other.upper)>>],
          counter)

\* Axis::intersect: a new unlabelled axis over the common part of the ranges.
intersect(self, other, counter) ==
    build([label |-> None,
           range |-> <<max(self.lower, other.lower), min(self.upper, other.upper)>>],
          counter)

\* impl Hash for Axis: what is fed to the hasher.
axis_hash(axis) == axis.id

AxisLabels == {None, Some("x")}

AxisRanges == {<<0, 2>>, <<1, 3>>}

\* The pool with one more axis: `made` is [axis, counter], `root` the build
\* the new axis goes back to.
pool_with(made, root) ==
    [ axes |-> Append(pool.axes, made.axis),
      counter |-> made.counter,
      root |-> Append(pool.root, root) ]

InitAxis ==
    /\ tracer = NoTracer
    /\ rand = NoRand
    /\ pool = [axes |-> <<>>, counter |-> 0, root |-> <<>>]
    /\ tensor = NoTensor
    /\ matrix = NoTensor
    /\ algo = "axis"
    /\ phase = "input"
    /\ result = Err("pending")
    /\ par = NoPar
    /\ sort = NoSort
    /\ hist = NoHist
    /\ iter = NoIter
    /\ io = NoIo

\* AxisBuilder::new().label(..).range(..).build(), the label being optional.
Build ==
    /\ Len(pool.axes) < MaxAxes
    /\ \E label \in AxisLabels, range \in AxisRanges :
          pool' = pool_with(build([label |-> label, range |-> range], pool.counter),
                            pool.counter)
    /\ UNCHANGED <<tensor, matrix, algo, phase, result, par, sort, hist, iter, io, rand, tracer>>

\* axis.clone()
Clone ==
    /\ Len(pool.axes) < MaxAxes
    /\ \E a \in 1..Len(pool.axes) :
          pool' = pool_with([axis |-> clone(pool.axes[a]), counter |-> pool.counter],
                            pool.root[a])
    /\ UNCHANGED <<tensor, matrix, algo, phase, result, par, sort, hist, iter, io, rand, tracer>>

\* axis.clone_with_label(label)
CloneWithLabel ==
    /\ Len(pool.axes) < MaxAxes
    /\ \E a \in 1..Len(pool.axes), label \in {"x", "y"} :
          pool' = pool_with(clone_with_label(pool.axes[a], label, pool.counter),
                            pool.counter)
    /\ UNCHANGED <<tensor, matrix, algo, phase, result, par, sort, hist, iter, io, rand, tracer>>

\* axis.clone_with_range(range)
CloneWithRange ==
    /\ Len(pool.axes) < MaxAxes
    /\ \E a \in 1..Len(pool.axes), range \in AxisRanges :
          pool' = pool_with(clone_with_range(pool.axes[a], range, pool.counter),
                            pool.counter)
    /\ UNCHANGED <<tensor, matrix, algo, phase, result, par, sort, hist, iter, io, rand, tracer>>

\* a.extend(&b)
Extend ==
    /\ Len(pool.axes) < MaxAxes
    /\ \E a, b \in 1..Len(pool.axes) :
          pool' = pool_with(extend(pool.axes[a], pool.axes[b], pool.counter),
                            pool.counter)
    /\ UNCHANGED <<tensor, matrix, algo, phase, result, par, sort, hist, iter, io, rand, tracer>>

\* a.intersect(&b)
Intersect ==
    /\ Len(pool.axes) < MaxAxes
    /\ \E a, b \in 1..Len(pool.axes) :
          pool' = pool_with(intersect(pool.axes[a], pool.axes[b], pool.counter),
                            pool.counter)
    /\ UNCHANGED <<tensor, matrix, algo, phase, result, par, sort, hist, iter, io, rand, tracer>>

NextAxis == Build \/ Clone \/ CloneWithLabel \/ CloneWithRange \/ Extend \/ Intersect

SpecAxis == InitAxis /\ [][NextAxis]_vars

(***************************************************************************)
(* Properties of axis identity (SpecAxis).                                 *)
(***************************************************************************)
\* C12: axis equality is identity.  Two axes compare equal, and feed the
\* same to a hasher, exactly when they go back to the same build through
\* plain clones; axes built apart are unequal even with the same range and
\* label, and what clone_with_label, clone_with_range, extend and intersect
\* return is unequal to every axis that was there before.
C12_AxisEqualityIsIdentity ==
    \A a, b \in 1..Len(pool.axes) :
        /\ AxisEq(pool.axes[a], pool.axes[b]) <=> pool.root[a] = pool.root[b]
        /\ axis_hash(pool.axes[a]) = axis_hash(pool.axes[b]) <=> pool.root[a] = pool.root[b]

\* Witness of C12: the same range and label three times: an axis, its plain
\* clone (equal), and an axis made apart from them (unequal).
C12_Witness ==
    /\ Len(pool.axes) >= 3
    /\ pool.root[2] = pool.root[1]
    /\ pool.root[3] # pool.root[1]
    /\ AxisEq(pool.axes[1], pool.axes[2])
    /\ ~AxisEq(pool.axes[1], pool.axes[3])
    /\ builder_from(pool.axes[3]) = builder_from(pool.axes[1])

(***************************************************************************)
(* COOIter: the streaming iterator over the elements of a tensor.  values  *)
(* is an array of shape (M, d1, .., dD) in C order, which is how zeros and *)
(* push_block lay it out.  Array axes and counters are 0-based as in the   *)
(* code; a sequence holding one entry per array axis has the entry of axis *)
(* a at place a + 1.                                                       *)
(***************************************************************************)
\* values.shape(): the number of blocks, then the sizes of the dense axes.
values_shape(t) == <<Len(t.values)>> \o block_shape(t)

\* values.strides() of a C-order array: the product of the later extents
\* (all zero when the array has no element).
strides(shape) ==
    [a \in 1..Len(shape) |->
        IF \E b \in 1..Len(shape) : shape[b] = 0 THEN 0
        ELSE Product(SubSeq(shape, a + 1, Len(shape)))]

\* dense_strides_sorted that leaves the axes in array order.
dense_strides_unsorted(shape) == [a \in 1..Len(shape) |-> a]

\* dense_strides_sorted: the array axes by ascending stride, and by
\* descending axis number where strides are equal.
dense_strides_sorted(shape) ==
    LET n == Len(shape)
        st == strides(shape)
        before(a, b) == st[a] < st[b] \/ (st[a] = st[b] /\ a > b)
    IN  CHOOSE p \in [1..n -> 1..n] :
            \A i, j \in 1..n : i < j => before(p[i], p[j])

\* self.values[dense_index_buffer]: the element of block buffer[0] at the
\* dense sub-index buffer[1..], read from the block's flat C-order data.
RECURSIVE flat_offset(_, _)
flat_offset(sub, shape) ==
    IF sub = <<>> THEN 0
    ELSE Head(sub) * Product(Tail(shape)) + flat_offset(Tail(sub), Tail(shape))

value_at(t, buffer) ==
    t.values[buffer[1] + 1][flat_offset(Tail(buffer), block_shape(t)) + 1]

\* calc_result: the logical index (the block's index row at the places of
\* the sparse axes in shape, dense sub-index + lower at the places of the
\* dense axes) and the value.
calc_result(t, buffer) ==
    LET sparse_index_to_logic == map_axes(t.sparse_axes, t.shape)
        dense_index_to_logic == map_axes(t.dense_axes, t.shape)
        logic_index_buffer ==
            [k \in 1..Len(t.shape) |->
                IF \E d \in 1..Len(t.dense_axes) : dense_index_to_logic[d] = k
                THEN LET d == CHOOSE d \in 1..Len(t.dense_axes) : dense_index_to_logic[d] = k
                     IN  buffer[d + 1] + lower(t.dense_axes[d])
                ELSE IF \E c \in 1..Len(t.sparse_axes) : sparse_index_to_logic[c] = k
                THEN LET c == CHOOSE c \in 1..Len(t.sparse_axes) : sparse_index_to_logic[c] = k
                     IN  t.indices[buffer[1] + 1][c]
                ELSE 0]
    IN  [index |-> logic_index_buffer, value |-> value_at(t, buffer)]

\* COOIter::new: counters at zero, nothing in the result buffer.
iter_new(t) ==
    [ dense_index_buffer |-> [a \in 1..Len(values_shape(t)) |-> 0],
      result_buffer |-> None ]

\* The loop of advance over dense_strides_sorted from its n-th entry on, when
\* an element is current: add one to the axis, carry into the next axis on
\* overflow; past the last axis, nothing is current.
RECURSIVE advance_carry(_, _, _, _)
advance_carry(t, buffer, order, n) ==
    IF n > Len(order) THEN [dense_index_buffer |-> buffer, result_buffer |-> None]
    ELSE LET dense_axis == order[n]
             bumped == [buffer EXCEPT ![dense_axis] = @ + 1]
         IN  IF bumped[dense_axis] >= values_shape(t)[dense_axis]
             THEN advance_carry(t, [buffer EXCEPT ![dense_axis] = 0], order, n + 1)
             ELSE [dense_index_buffer |-> bumped,
                   result_buffer |-> Some(calc_result(t, bumped))]

\* The branch of advance taken when nothing is current: counters back to
\* zero, and the element there becomes current unless an axis is empty.
advance_restart(t, it) ==
    LET zero == [a \in 1..Len(it.dense_index_buffer) |-> 0]
    IN  IF \E a \in 1..Len(zero) : zero[a] >= values_shape(t)[a]
        THEN [dense_index_buffer |-> zero, result_buffer |-> it.result_buffer]
        ELSE [dense_index_buffer |-> zero, result_buffer |-> Some(calc_result(t, zero))]

\* StreamingIterator::advance
advance(t, it) ==
    IF it.result_buffer.is_some
    THEN advance_carry(t, it.dense_index_buffer,
                       dense_strides_sorted(values_shape(t)), 1)
    ELSE advance_restart(t, it)

\* StreamingIterator::get
get(it) == it.result_buffer

(***************************************************************************)
(* SpecIter: one COOIter over a tensor, advanced until nothing is current  *)
(* and then a few times more.  iter.yielded is history: what get()         *)
(* returned after each advance up to the first time it returned nothing.   *)
(***************************************************************************)
\* Largest number of calls of advance after get() first returned nothing.
MaxPastEnd == 2

\* An axis without any index.
axE == [id |-> 4, lower |-> 1, upper |-> 1]

IterLayouts ==
    { [shape |-> <<axI, axJ>>, is_axis_dense |-> <<FALSE, FALSE>>],
      [shape |-> <<axJ, axI>>, is_axis_dense |-> <<TRUE, FALSE>>],
      [shape |-> <<axK, axI, axR>>, is_axis_dense |-> <<TRUE, FALSE, TRUE>>],
      [shape |-> <<axI, axE>>, is_axis_dense |-> <<FALSE, TRUE>>] }

\* Tensors filled by push_block, element x of block b holding 10 * b + x, so
\* that a value tells where it was stored.
IterTensors(layout) ==
    LET z == zeros(layout.shape, layout.is_axis_dense)
    IN  { [z EXCEPT !.indices = rows,
                    !.values = [b \in 1..Len(rows) |->
                                   [x \in 1..dense_block_size(z) |-> 10 * b + x]],
                    !.sparse_is_sorted = (rows = <<>>)] :
            rows \in UNION { [1..n -> IndexRows(z.sparse_axes)] : n \in 0..MaxBlocks } }

InitIter ==
    /\ tracer = NoTracer
    /\ rand = NoRand
    /\ tensor \in UNION { IterTensors(layout) : layout \in IterLayouts }
    /\ matrix = NoTensor
    /\ algo = "iter"
    /\ phase = "input"
    /\ result = Err("pending")
    /\ par = NoPar
    /\ sort = NoSort
    /\ hist = NoHist
    /\ pool = NoPool
    /\ iter = NoIter
    /\ io = NoIo

\* let mut it = tensor.iter();
IterNew ==
    /\ phase = "input"
    /\ iter' = [ status |-> "open", cursor |-> iter_new(tensor),
                 yielded |-> <<>>, ended |-> FALSE, past_end |-> 0 ]
    /\ phase' = "running"
    /\ UNCHANGED <<tensor, matrix, algo, result, par, sort, hist, pool, io, rand, tracer>>

\* it.advance(); it.get()
Advance ==
    /\ phase = "running"
    /\ iter.past_end < MaxPastEnd
    /\ LET cursor == advance(tensor, iter.cursor)
       IN  iter' = [iter EXCEPT
                      !.cursor = cursor,
                      !.yielded = IF ~iter.ended /\ get(cursor).is_some
                                  THEN Append(@, get(cursor).value) ELSE @,
                      !.ended = @ \/ ~get(cursor).is_some,
                      !.past_end = IF iter.ended THEN @ + 1 ELSE @]
    /\ UNCHANGED <<tensor, matrix, algo, phase, result, par, sort, hist, pool, io, rand, tracer>>

NextIter == IterNew \/ Advance

SpecIter == InitIter /\ [][NextIter]_vars

(***************************************************************************)
(* Properties of the iterator (SpecIter).                                  *)
(***************************************************************************)
\* Dense sub-index number x (from 0) of a block, the last dense axis running
\* fastest: its coordinate along dense axis d (from 1).
SubIndex(x, d) ==
    LET extents == [e \in 1..Len(tensor.dense_axes) |->
                       tensor.dense_axes[e].upper - tensor.dense_axes[e].lower]
    IN  (x \div Product(SubSeq(extents, d + 1, Len(extents)))) % extents[d]

\* Elements per block.
BlockElements ==
    Product([e \in 1..Len(tensor.dense_axes) |->
                max(0, tensor.dense_axes[e].upper - tensor.dense_axes[e].lower)])

\* The item for block m (from 1) and dense sub-index number x (from 0).
ExpectedItem(m, x) ==
    [ index |->
        [k \in 1..Len(tensor.shape) |->
            IF \E c \in 1..Len(tensor.sparse_axes) : tensor.sparse_axes[c].id = tensor.shape[k].id
            THEN tensor.indices[m][CHOOSE c \in 1..Len(tensor.sparse_axes) :
                                      tensor.sparse_axes[c].id = tensor.shape[k].id]
            ELSE LET d == CHOOSE d \in 1..Len(tensor.dense_axes) :
                              tensor.dense_axes[d].id = tensor.shape[k].id
                 IN  SubIndex(x, d) + tensor.dense_axes[d].lower],
      value |-> tensor.values[m][x + 1] ]

\* The whole sequence: block after block, inside a block sub-index after
\* sub-index.
ExpectedItems ==
    [e \in 1..(Len(tensor.indices) * BlockElements) |->
        ExpectedItem(((e - 1) \div BlockElements) + 1, (e - 1) % BlockElements)]

\* C13: iter() yields M * (product of the dense axis sizes) items, one per
\* pair (block, dense sub-index), each once, block after block and inside a
\* block with the smallest-stride axis fastest; nothing when M = 0 or a dense
\* axis is empty; an item's logical index has the block's index row at the
\* sparse places of shape and sub-index + lower at the dense places.
C13_IterYieldsEveryElement ==
    iter.status = "open" =>
        /\ Len(iter.yielded) <= Len(ExpectedItems)
        /\ \A e \in 1..Len(iter.yielded) : iter.yielded[e] = ExpectedItems[e]
        /\ iter.ended => iter.yielded = ExpectedItems

\* Witness of C13: the iterator has run through two blocks of 2 x 3 elements
\* of a tensor whose dense axes stand first and last in shape.
C13_Witness ==
    /\ iter.status = "open"
    /\ iter.ended
    /\ Len(iter.yielded) = 12
    /\ Ids(tensor.shape) = <<axK.id, axI.id, axR.id>>
    /\ iter.yielded[2].index[3] = 1

\* C14: the sequence of iter() does not start over.  Once advance has moved
\* past the last element and get() returns nothing, get() returns nothing
\* after every further advance.
C14_IterNonRestartable ==
    (iter.status = "open" /\ iter.ended) => ~get(iter.cursor).is_some

(***************************************************************************)
(* Sort applied to rows that are sorted already (SpecSort).                *)
(***************************************************************************)
\* C15: Sort is idempotent.  Applied with order o to rows that a Sort with o
\* has left o-sorted, SortCOOTensor leaves indices, values and the recorded
\* order as they were.
C15_SortIdempotent ==
    (SortEnded /\ RowsOrdered(sort.input.indices, sort.order)) =>
        /\ tensor.indices = sort.input.indices
        /\ tensor.values = sort.input.values
        /\ Ids(tensor.sparse_sort_order) =
              [x \in 1..Len(sort.order) |-> tensor.sparse_axes[sort.order[x]].id]

(***************************************************************************)
(* Text input and output.  A text is a sequence of bytes, each a string    *)
(* of the model: the digits, "x", ".", "e", "#", and the names SP, TAB,    *)
(* LF, CR of the bytes ' ', '\t', '\n', '\r'.  Reading from memory does    *)
(* not fail, so the IOError branches of the code are left out.             *)
(***************************************************************************)
SP == "SP"

TAB == "TAB"

LF == "LF"

CR == "CR"

Digits == <<"0", "1", "2", "3", "4", "5", "6", "7", "8", "9">>

(***************************************************************************)
(* LineNumberReader: a reader with one byte of look-ahead that counts      *)
(* lines and columns.  pos is the number of bytes taken from `inner`.      *)
(***************************************************************************)
NoPeek == [kind |-> "none", byte |-> ""]

\* LineNumberReader::new
LineNumberReader_new(text) ==
    [inner |-> text, pos |-> 0, line_number |-> 1, column_number |-> 1, peek |-> NoPeek]

\* LineNumberReader::line_column: a byte held as look-ahead counts as read.
line_column(r) ==
    IF r.peek.kind = "byte"
    THEN IF r.peek.byte = LF THEN <<r.line_number + 1, 1>>
         ELSE <<r.line_number, r.column_number + 1>>
    ELSE <<r.line_number, r.column_number>>

\* self.inner.read(&mut buf) with a buffer of one byte.
inner_read(r) ==
    IF r.pos < Len(r.inner)
    THEN [r |-> [r EXCEPT !.pos = @ + 1], byte |-> Some(r.inner[r.pos + 1])]
    ELSE [r |-> r, byte |-> None]

\* LineNumberReader::peek_byte
peek_byte(r) ==
    CASE r.peek.kind = "byte" -> [r |-> r, byte |-> Some(r.peek.byte)]
      [] r.peek.kind = "eof" -> [r |-> r, byte |-> None]
      [] OTHER ->
            LET got == inner_read(r)
            IN  IF got.byte.is_some
                THEN [r |-> [got.r EXCEPT !.peek = [kind |-> "byte", byte |-> got.byte.value]],
                      byte |-> got.byte]
                ELSE [r |-> [got.r EXCEPT !.peek = [kind |-> "eof", byte |-> ""]],
                      byte |-> None]

\* LineNumberReader::read_byte: only a byte that was looked at first moves
\* the line and column counters.
read_byte(r) ==
    CASE r.peek.kind = "byte" ->
            [r |-> [r EXCEPT !.peek = NoPeek,
                             !.line_number = IF r.peek.byte = LF THEN @ + 1 ELSE @,
                             !.column_number = IF r.peek.byte = LF THEN 1 ELSE @ + 1],
             byte |-> Some(r.peek.byte)]
      [] r.peek.kind = "eof" -> [r |-> [r EXCEPT !.peek = NoPeek], byte |-> None]
      [] OTHER -> inner_read(r)

(***************************************************************************)
(* The tokenizer of read_coo.rs.                                           *)
(***************************************************************************)
TokenMask(eof, new_line, comment, value) ==
    [eof |-> eof, new_line |-> new_line, comment |-> comment, value |-> value]

Token(kind, value) == [kind |-> kind, value |-> value]

\* A tokenizer result: the reader after it, and a token or an error.
Lexed(r, token) == [r |-> r, ok |-> TRUE, token |-> token, err |-> <<>>]

LexError(r, kind, at) ==
    [r |-> r, ok |-> FALSE, token |-> Token("None", <<>>),
     err |-> [kind |-> kind, line |-> at[1], column |-> at[2]]]

\* Bind(v, F) is F(v), with v worked out once before F uses it.
Bind(v, F(_)) == CHOOSE y \in {F(x) : x \in {v}} : TRUE

\* read_next_comment: bytes up to and including the first '\n' or '\r'.
RECURSIVE read_next_comment(_)
read_next_comment(r) ==
    Bind(peek_byte(r), LAMBDA look_ahead :
        IF ~look_ahead.byte.is_some THEN look_ahead.r
        ELSE IF look_ahead.byte.value \in {LF, CR} THEN read_byte(look_ahead.r).r
        ELSE read_next_comment(read_byte(look_ahead.r).r))

\* read_next_value: bytes up to the next blank, line end, '#' or end of file.
RECURSIVE read_next_value(_, _)
read_next_value(r, bytes) ==
    Bind(peek_byte(r), LAMBDA look_ahead :
        IF ~look_ahead.byte.is_some \/ look_ahead.byte.value \in {TAB, LF, CR, SP, "#"}
        THEN [r |-> look_ahead.r, value |-> bytes]
        ELSE read_next_value(read_byte(look_ahead.r).r,
                             Append(bytes, look_ahead.byte.value)))

\* read_next_token after its look-ahead: `at` is the position taken before.
RECURSIVE read_next_token(_, _)
token_after(look_ahead, at, expect) ==
    LET b == look_ahead.byte.value
    IN  IF ~look_ahead.byte.is_some
        THEN IF expect.eof THEN Lexed(look_ahead.r, Token("Eof", <<>>))
             ELSE LexError(look_ahead.r, "TokenizeError", at)
        ELSE CASE b \in {TAB, SP} -> read_next_token(read_byte(look_ahead.r).r, expect)
               [] b = LF ->
                    IF expect.new_line
                    THEN Lexed(read_byte(look_ahead.r).r, Token("NewLine", <<>>))
                    ELSE LexError(look_ahead.r, "TokenizeError", at)
               [] b = CR ->
                    Bind(peek_byte(read_byte(look_ahead.r).r), LAMBDA after :
                        IF after.byte.is_some /\ after.byte.value = LF
                        THEN Lexed(read_byte(after.r).r, Token("NewLine", <<>>))
                        ELSE Lexed(after.r, Token("NewLine", <<>>)))
               [] b = "#" ->
                    IF expect.comment
                    THEN Lexed(read_next_comment(look_ahead.r), Token("Comment", <<>>))
                    ELSE LexError(look_ahead.r, "TokenizeError", at)
               [] OTHER ->
                    IF expect.value
                    THEN Bind(read_next_value(look_ahead.r, <<>>), LAMBDA got :
                             Lexed(got.r, Token("Value", got.value)))
                    ELSE LexError(look_ahead.r, "TokenizeError", at)

\* read_next_token: blanks are passed over; the first other byte decides the
\* token, and a token `expect` does not list is a TokenizeError.  A '\r',
\* with a '\n' right after it, is a NewLine whatever `expect` lists.
read_next_token(r, expect) ==
    Bind(peek_byte(r), LAMBDA look_ahead : token_after(look_ahead, line_column(r), expect))

\* Whether `mask` lists the kind of `token`.
mask_has(mask, token) ==
    CASE token.kind = "Eof" -> mask.eof
      [] token.kind = "NewLine" -> mask.new_line
      [] token.kind = "Comment" -> mask.comment
      [] OTHER -> mask.value

\* read_until_token: tokens of the kinds in `skip` are passed over until one
\* of a kind in `expect` comes.  No call of the reader lists the end of file
\* in `skip` alone, so the loop ends.
RECURSIVE read_until_token(_, _, _)
read_until_token(r, expect, skip) ==
    Bind(read_next_token(r, TokenMask(skip.eof \/ expect.eof,
                                      skip.new_line \/ expect.new_line,
                                      skip.comment \/ expect.comment,
                                      skip.value \/ expect.value)),
         LAMBDA got :
            IF ~got.ok \/ mask_has(expect, got.token) THEN got
            ELSE read_until_token(got.r, expect, skip))

(***************************************************************************)
(* read_from_text_with_parser.  An outcome is Ok with a tensor or an error *)
(* with its kind and the line and column the code attaches to it.          *)
(***************************************************************************)
digit_value(b) == CHOOSE d \in 0..9 : Digits[d + 1] = b

\* str::parse for an unsigned integer type: decimal digits only.
RECURSIVE parse_digits(_, _)
parse_digits(value, n) ==
    IF value = <<>> THEN n
    ELSE parse_digits(Tail(value), 10 * n + digit_value(Head(value)))

parse_int(value) ==
    IF value # <<>> /\ \A i \in 1..Len(value) : value[i] \in Range(Digits)
    THEN Some(parse_digits(value, 0))
    ELSE None

\* The parser read_from_text passes for values, value.parse::<VT>().ok(), on
\* the whole numbers the model keeps as values: a plain decimal, or a decimal
\* digit followed by ".000000e0".
SixZeros == <<".", "0", "0", "0", "0", "0", "0", "e", "0">>

parser(value) ==
    IF Len(value) = 10 /\ value[1] \in Range(Digits) /\ SubSeq(value, 2, 10) = SixZeros
    THEN Some(digit_value(value[1]))
    ELSE parse_int(value)

ReadError(kind, at) == [kind |-> kind, line |-> at[1], column |-> at[2]]

Stopped(r, err) == [r |-> r, ok |-> FALSE, err |-> err]

ValueMask == TokenMask(FALSE, FALSE, FALSE, TRUE)

\* One line of bounds: `ndim` integers; a line break may come before the
\* first of them only.
RECURSIVE read_bounds(_, _, _, _, _)
read_bounds(r, num_dim, dim, skip_value, bounds) ==
    IF dim >= num_dim THEN [r |-> r, ok |-> TRUE, err |-> <<>>, bounds |-> bounds]
    ELSE Bind(read_until_token(r, ValueMask, TokenMask(FALSE, dim = 0, TRUE, skip_value)),
              LAMBDA got :
                IF ~got.ok THEN Stopped(got.r, got.err) @@ [bounds |-> bounds]
                ELSE IF ~parse_int(got.token.value).is_some
                     THEN Stopped(got.r, ReadError("ValueError", line_column(r)))
                              @@ [bounds |-> bounds]
                ELSE read_bounds(got.r, num_dim, dim + 1, skip_value,
                                 Append(bounds, parse_int(got.token.value).value)))

\* "Read until EOL (or EOF if ndim == 0)"
read_until_eol(r, num_dim, skip_new_line) ==
    read_until_token(r, TokenMask(num_dim = 0, TRUE, FALSE, FALSE),
                     TokenMask(FALSE, skip_new_line, TRUE, FALSE))

is_token_eof(got) == got.token.kind = "Eof"

\* The indices of one element: `kind` is "row" when all of them were read
\* and lie in their axes' ranges, "eof" when the file ended before the first.
RECURSIVE read_index(_, _, _, _)
read_index(r, shape, dim, index) ==
    IF dim >= Len(shape) THEN [r |-> r, ok |-> TRUE, err |-> <<>>, kind |-> "row", index |-> index]
    ELSE Bind(read_until_token(r, TokenMask(dim = 0, FALSE, FALSE, TRUE),
                               TokenMask(FALSE, dim = 0, TRUE, FALSE)),
              LAMBDA got :
                LET at == line_column(r)
                    parsed == parse_int(got.token.value)
                    axis == shape[dim + 1]
                IN  IF ~got.ok THEN Stopped(got.r, got.err) @@ [kind |-> "err", index |-> index]
                    ELSE IF got.token.kind = "Eof"
                         THEN [r |-> got.r, ok |-> TRUE, err |-> <<>>, kind |-> "eof",
                               index |-> index]
                    ELSE IF ~parsed.is_some
                         THEN Stopped(got.r, ReadError("ValueError", at))
                                  @@ [kind |-> "err", index |-> index]
                    ELSE IF ~(axis.lower <= parsed.value /\ parsed.value < axis.upper)
                         THEN Stopped(got.r, ReadError("IndexOutOfBoundError", at))
                                  @@ [kind |-> "err", index |-> index]
                    ELSE read_index(got.r, shape, dim + 1, Append(index, parsed.value)))

ReadFailed(err) == [ok |-> FALSE, err |-> err, tensor |-> NoTensor]

\* The value of an element and tensor.push_block(..), then the next element.
RECURSIVE read_elements(_, _)
read_value(row, t) ==
    Bind(read_until_token(row.r, ValueMask, TokenMask(FALSE, FALSE, TRUE, FALSE)),
         LAMBDA got :
            LET at == line_column(row.r)
                parsed == parser(got.token.value)
            IN  IF ~got.ok THEN ReadFailed(got.err)
                ELSE IF ~parsed.is_some THEN ReadFailed(ReadError("ValueError", at))
                ELSE Bind(push_block_call(t, row.index,
                                          [shape |-> <<>>, data |-> <<parsed.value>>]),
                          LAMBDA pushed :
                            IF pushed.panicked THEN ReadFailed(ReadError("panic", at))
                            ELSE read_elements(got.r, pushed.tensor)))

\* 'a: loop { indices; value; tensor.push_block(..) }
read_elements(r, t) ==
    Bind(read_index(r, t.shape, 0, <<>>), LAMBDA row :
        IF ~row.ok THEN ReadFailed(row.err)
        ELSE IF row.kind = "eof" THEN Ok(t)
        ELSE read_value(row, t))

\* The axes the reader builds: no label, the range lower..upper, the next
\* ids of the process-wide counter (taken here from 0).
read_shape(lower_bound, upper_bound) ==
    [i \in 1..Len(lower_bound) |->
        build([label |-> None, range |-> <<lower_bound[i], upper_bound[i]>>], i - 1).axis]

\* From "Create the tensor" on: `eof` tells that the header ended the file.
read_body(r, eof, lower_bound, upper_bound) ==
    Bind([name |-> None] @@ zeros(read_shape(lower_bound, upper_bound),
                                  [i \in 1..Len(lower_bound) |-> FALSE]),
         LAMBDA t : IF eof THEN Ok(t) ELSE read_elements(r, t))

\* The line of upper bounds and the end of that line.
read_upper(eol2, num_dim, lower_bound) ==
    Bind(read_bounds(eol2.r, num_dim, 0, TRUE, <<>>), LAMBDA upper_bound :
        IF ~upper_bound.ok THEN ReadFailed(upper_bound.err)
        ELSE Bind(IF is_token_eof(eol2) THEN eol2
                  ELSE read_until_eol(upper_bound.r, num_dim, FALSE),
                  LAMBDA eol3 :
                    IF ~eol3.ok THEN ReadFailed(eol3.err)
                    ELSE read_body(eol3.r, is_token_eof(eol3), lower_bound,
                                   upper_bound.bounds)))

\* The end of the first line, the line of lower bounds and the end of that
\* line; `eof = eof || ..` does not read once the end of the file was met.
read_lower(r, num_dim) ==
    Bind(read_until_eol(r, num_dim, TRUE), LAMBDA eol1 :
        IF ~eol1.ok THEN ReadFailed(eol1.err)
        ELSE Bind(read_bounds(eol1.r, num_dim, 0, FALSE, <<>>), LAMBDA lower_bound :
                IF ~lower_bound.ok THEN ReadFailed(lower_bound.err)
                ELSE Bind(IF is_token_eof(eol1) THEN eol1
                          ELSE read_until_eol(lower_bound.r, num_dim, FALSE),
                          LAMBDA eol2 :
                            IF ~eol2.ok THEN ReadFailed(eol2.err)
                            ELSE read_upper(eol2, num_dim, lower_bound.bounds))))

read_from_text_with_parser(text) ==
    Bind(read_until_token(LineNumberReader_new(text), ValueMask,
                          TokenMask(FALSE, TRUE, TRUE, FALSE)),
         LAMBDA first :
            IF ~first.ok THEN ReadFailed(first.err)
            ELSE IF ~parse_int(first.token.value).is_some
                 THEN ReadFailed(ReadError("ValueError",
                                           line_column(LineNumberReader_new(text))))
            ELSE read_lower(first.r, parse_int(first.token.value).value))

(***************************************************************************)
(* write_to_text_with_formatter.  A name or a label of the model is one    *)
(* byte long.                                                              *)
(***************************************************************************)
\* format!("{}", n) for a non-negative integer.
RECURSIVE to_digits(_)
to_digits(n) ==
    IF n < 10 THEN <<Digits[n + 1]>>
    ELSE Append(to_digits(n \div 10), Digits[(n % 10) + 1])

\* The formatter write_to_text passes, format!("{:.6e}", value), on the whole
\* numbers 0..9 the model keeps as values.
formatter(value) == <<Digits[value + 1]>> \o SixZeros

\* "# Axis {i}: {label}" or "# Axis {i} has no label", for each axis.
RECURSIVE write_labels(_, _)
write_labels(shape, i) ==
    IF i >= Len(shape) THEN <<>>
    ELSE LET axis == shape[i + 1]
             head == <<"#", SP, "A", "x", "i", "s", SP>> \o to_digits(i)
             line == IF axis.label.is_some
                     THEN head \o <<":", SP, axis.label.value, LF>>
                     ELSE head \o <<SP, "h", "a", "s", SP, "n", "o", SP,
                                    "l", "a", "b", "e", "l", LF>>
         IN  line \o write_labels(shape, i + 1)

\* One line of bounds, the numbers separated by single spaces.
RECURSIVE write_bounds(_, _)
write_bounds(bounds, i) ==
    IF i > Len(bounds) THEN <<LF>>
    ELSE (IF i = 1 THEN <<>> ELSE <<SP>>) \o to_digits(bounds[i]) \o write_bounds(bounds, i + 1)

\* Every index of an item followed by a tab, then the value and a line end.
RECURSIVE write_index(_, _)
write_index(index, i) ==
    IF i > Len(index) THEN <<>>
    ELSE to_digits(index[i]) \o <<TAB>> \o write_index(index, i + 1)

\* while let Some(&(index, value)) = tensor_iter.next() { .. }
RECURSIVE write_elements(_, _)
write_elements(t, tensor_iter) ==
    Bind(advance(t, tensor_iter), LAMBDA next :
        IF ~get(next).is_some THEN <<>>
        ELSE write_index(get(next).value.index, 1) \o formatter(get(next).value.value)
                 \o <<LF>> \o write_elements(t, next))

write_to_text_with_formatter(t) ==
    LET name_line == IF t.name.is_some THEN <<"#", SP, t.name.value, LF>> ELSE <<>>
        ndim_line == to_digits(Len(t.shape)) \o <<LF>>
        labels == IF \E i \in 1..Len(t.shape) : t.shape[i].label.is_some
                  THEN write_labels(t.shape, 0) ELSE <<>>
    IN  IF Len(t.shape) = 0 THEN name_line \o ndim_line
        ELSE name_line \o ndim_line \o labels
                 \o write_bounds([i \in 1..Len(t.shape) |-> t.shape[i].lower], 1)
                 \o write_bounds([i \in 1..Len(t.shape) |-> t.shape[i].upper], 1)
                 \o write_elements(t, iter_new(t))

(***************************************************************************)
(* Writing a tensor to text and reading a text.  A run starts from a fully *)
(* sparse tensor, which is written, read back and written again (as the    *)
(* test load_then_store_tensor does from the second step on), or from an   *)
(* input file, which is read and, when accepted, written.                  *)
(***************************************************************************)
IOAxis(id, label, lo, hi) == [id |-> id, label |-> label, lower |-> lo, upper |-> hi]

\* Zero, one and two axes, without labels and with a label on the first axis
\* only; one axis has two-digit bounds.
IOShapes ==
    { <<>>,
      <<IOAxis(0, None, 9, 11)>>,
      <<IOAxis(0, Some("x"), 0, 3)>>,
      <<IOAxis(0, None, 0, 2), IOAxis(1, None, 1, 3)>>,
      <<IOAxis(0, Some("x"), 0, 2), IOAxis(1, None, 1, 3)>> }

IONames == {None, Some("t")}

IOValues == {3, 7}

IORows(shape) ==
    {row \in [1..Len(shape) -> 0..10] :
        \A i \in 1..Len(shape) : shape[i].lower <= row[i] /\ row[i] < shape[i].upper}

\* The tensor after pushing the entries, one push_block call each.
RECURSIVE with_entries(_, _)
with_entries(t, entries) ==
    IF entries = <<>> THEN t
    ELSE with_entries(push_block_call(t, Head(entries).index,
                                      [shape |-> <<>>, data |-> <<Head(entries).value>>]).tensor,
                      Tail(entries))

IOTensor(name, shape, entries) ==
    with_entries([name |-> name] @@ zeros(shape, [i \in 1..Len(shape) |-> FALSE]), entries)

\* Input files of a tensor over the axes 0..2 and 1..3, put together from
\* lines: plain ones, and ones with blank lines, comments, several
\* separators, a line break inside a record, an index out of its range or a
\* value that is no number.
HeadLines ==
    { <<"2", LF>>,
      <<"2", SP, "#", "c", LF>>,
      <<"#", "c", LF, "2", LF>>,
      <<LF, "2", LF>> }

LowerLines ==
    { <<"0", SP, "1", LF>>,
      <<"0", LF, "1", LF>> }

UpperLines ==
    { <<"2", SP, "3", LF>>,
      <<"2", TAB, "3", SP, "#", "c", LF>> }

ElementLines ==
    { <<"1", TAB, "2", TAB, "7", LF>>,
      <<"0", SP, SP, "1", SP, "7", LF>>,
      <<"1", SP, "2", SP, "7", SP, "#", "c", LF>>,
      <<"1", LF, "2", SP, "7", LF>>,
      <<"2", SP, "1", SP, "7", LF>>,
      <<"1", SP, "3", SP, "7", LF>>,
      <<"1", SP, SP, "0", SP, "7", LF>>,
      <<LF, "5", SP, "1", SP, "7", LF>>,
      <<"#", "c", LF, "4", SP, "1", SP, "7", LF>>,
      <<SP, "3", SP, "1", SP, "7", LF>>,
      <<"1", SP, "1", SP, "x", LF>> }

RECURSIVE Concat(_)
Concat(lines) == IF lines = <<>> THEN <<>> ELSE Head(lines) \o Concat(Tail(lines))

IOText(head, lo, hi, lines) == head \o lo \o hi \o Concat(lines)

\* The same text with every line end written as CR LF.
RECURSIVE ToCRLF(_)
ToCRLF(text) ==
    IF text = <<>> THEN <<>>
    ELSE (IF Head(text) = LF THEN <<CR, LF>> ELSE <<Head(text)>>) \o ToCRLF(Tail(text))

InitIO ==
    /\ tracer = NoTracer
    /\ rand = NoRand
    /\ matrix = NoTensor
    /\ algo = "io"
    /\ phase = "input"
    /\ result = Err("pending")
    /\ par = NoPar
    /\ sort = NoSort
    /\ hist = NoHist
    /\ pool = NoPool
    /\ iter = NoIter
    /\ \/ /\ \E name \in IONames, shape \in IOShapes, m \in 0..MaxBlocks :
                \E entries \in [1..m -> [index : IORows(shape), value : IOValues]] :
                    tensor = IOTensor(name, shape, entries)
          /\ io = [status |-> "tensor", source |-> "tensor", lf_text |-> <<>>,
                   crlf |-> FALSE, text |-> <<>>, back |-> <<>>]
       \/ /\ tensor = NoTensor
          /\ \E head \in HeadLines, lo \in LowerLines, hi \in UpperLines,
                m \in 0..MaxBlocks, crlf \in BOOLEAN :
                \E lines \in [1..m -> ElementLines] :
                    \E lf_text \in {IOText(head, lo, hi, lines)} :
                        io = [status |-> "text", source |-> "file", lf_text |-> lf_text,
                              crlf |-> crlf,
                              text |-> IF crlf THEN ToCRLF(lf_text) ELSE lf_text,
                              back |-> <<>>]

\* tensor.write_to_text(&mut w)
WriteToText ==
    /\ io.status = "tensor"
    /\ io' = [io EXCEPT !.status = "text", !.text = write_to_text_with_formatter(tensor)]
    /\ UNCHANGED <<tensor, matrix, algo, phase, result, par, sort, hist, pool, iter, rand, tracer>>

\* COOTensor::read_from_text(&mut r)
ReadFromText ==
    /\ io.status = "text"
    /\ result' = read_from_text_with_parser(io.text)
    /\ io' = [io EXCEPT !.status = "read"]
    /\ UNCHANGED <<tensor, matrix, algo, phase, par, sort, hist, pool, iter, rand, tracer>>

\* Writing the tensor that was read.
WriteBack ==
    /\ io.status = "read"
    /\ result.ok
    /\ io' = [io EXCEPT !.status = "written",
                        !.back = write_to_text_with_formatter(result.tensor)]
    /\ UNCHANGED <<tensor, matrix, algo, phase, result, par, sort, hist, pool, iter, rand, tracer>>

NextIO == WriteToText \/ ReadFromText \/ WriteBack

SpecIO == InitIO /\ [][NextIO]_vars

\* The (index row, value) entries of a fully sparse tensor, the values as the
\* tokens the writer makes of them.
Entries(t) ==
    [m \in 1..Len(t.indices) |-> [index |-> t.indices[m], value |-> formatter(t.values[m][1])]]

Bounds(t) == [i \in 1..Len(t.shape) |-> <<t.shape[i].lower, t.shape[i].upper>>]

\* C16: for every fully sparse tensor, named or not, with labelled or
\* unlabelled axes and any number of axes including none, reading the text
\* that write_to_text made of it succeeds and gives a tensor with the same
\* number of axes, the same bounds per axis and the same sequence of (index
\* row, value) entries, the values compared as written tokens; and a file
\* that was read is written back.
C16_TextRoundTrip ==
    /\ (io.source = "tensor" /\ io.status \in {"read", "written"}) =>
            /\ result.ok
            /\ Len(result.tensor.shape) = Len(tensor.shape)
            /\ Bounds(result.tensor) = Bounds(tensor)
            /\ Entries(result.tensor) = Entries(tensor)
    /\ (io.status = "written") => io.back # <<>>

\* The outcome of reading the same input with the other kind of line ends.
OtherLineEnds ==
    read_from_text_with_parser(IF io.crlf THEN io.lf_text ELSE ToCRLF(io.lf_text))

SameOutcome(a, b) == (a.ok = b.ok) /\ (a.ok => a.tensor = b.tensor)

\* C17: line ends do not change the parse: reading a text with CR LF line
\* ends gives the same outcome as reading it with LF line ends, the same
\* tensor when one succeeds and a failure when the other fails, also for
\* inputs with trailing '#' comments and inputs where a line break falls
\* inside a record.
C17_LineEndsDoNotChangeParse ==
    (io.source = "file" /\ io.status \in {"read", "written"}) =>
        SameOutcome(result, OtherLineEnds)

(***************************************************************************)
(* The layout of an input text, found without the reader: its value tokens *)
(* with the line and column (from 1) of their first byte, and the lines    *)
(* that hold a comment.                                                    *)
(***************************************************************************)
ScanStart ==
    [line |-> 1, column |-> 1, bytes |-> <<>>, at |-> 0, in_comment |-> FALSE,
     tokens |-> <<>>, comment_lines |-> {}]

\* The token collected so far, if any, is complete.
ScanFlush(s) ==
    IF s.bytes = <<>> THEN s
    ELSE [s EXCEPT !.tokens = Append(@, [value |-> s.bytes, line |-> s.line, column |-> s.at]),
                   !.bytes = <<>>]

RECURSIVE Scan(_, _, _)
Scan(text, i, s) ==
    IF i > Len(text) THEN ScanFlush(s)
    ELSE LET b == text[i]
             moved(x) == [x EXCEPT !.column = @ + 1]
         IN  CASE b = LF ->
                    Scan(text, i + 1, [ScanFlush(s) EXCEPT !.line = @ + 1, !.column = 1,
                                                           !.in_comment = FALSE])
               [] b # LF /\ s.in_comment -> Scan(text, i + 1, moved(s))
               [] b = "#" /\ ~s.in_comment ->
                    Scan(text, i + 1, moved([ScanFlush(s) EXCEPT
                                                !.in_comment = TRUE,
                                                !.comment_lines = @ \cup {s.line}]))
               [] b \in {SP, TAB, CR} /\ ~s.in_comment -> Scan(text, i + 1, moved(ScanFlush(s)))
               [] OTHER ->
                    Scan(text, i + 1,
                         moved([s EXCEPT !.bytes = Append(@, b),
                                         !.at = IF s.bytes = <<>> THEN s.column ELSE @]))

Layout == Scan(io.text, 1, ScanStart)

\* The tokens of record k (from 1) of a file with n axes: n indices, a value.
RecordAt(tokens, n, k) == SubSeq(tokens, 2 * n + 2 + (k - 1) * (n + 1), 2 * n + 1 + k * (n + 1))

OnOneLine(tokens) == \A i \in 1..Len(tokens) : tokens[i].line = tokens[1].line

\* The file is laid out line by line: the number of axes, the lower bounds
\* and the upper bounds each on a line of their own that holds no comment,
\* then one record per line.
WellLaidOut(layout) ==
    LET tokens == layout.tokens
        n == parse_int(tokens[1].value).value
        records == (Len(tokens) - 2 * n - 1) \div (n + 1)
        lines == [k \in 1..(records + 3) |->
                    CASE k = 1 -> SubSeq(tokens, 1, 1)
                      [] k = 2 -> SubSeq(tokens, 2, n + 1)
                      [] k = 3 -> SubSeq(tokens, n + 2, 2 * n + 1)
                      [] OTHER -> RecordAt(tokens, n, k - 3)]
    IN  /\ tokens # <<>>
        /\ parse_int(tokens[1].value).is_some
        /\ n >= 1
        /\ Len(tokens) >= 2 * n + 1
        /\ Len(tokens) = 2 * n + 1 + records * (n + 1)
        /\ \A i \in 1..(2 * n + 1) : parse_int(tokens[i].value).is_some
        /\ \A k \in 1..(records + 3) : OnOneLine(lines[k])
        /\ \A k \in 1..(records + 2) : lines[k][1].line < lines[k + 1][1].line
        /\ \A k \in 1..3 : lines[k][1].line \notin layout.comment_lines

\* Index d of record k lies in the range of axis d.
IndexInRange(tokens, n, k, d) ==
    LET idx == parse_int(RecordAt(tokens, n, k)[d].value)
    IN  /\ idx.is_some
        /\ parse_int(tokens[1 + d].value).value <= idx.value
        /\ idx.value < parse_int(tokens[1 + n + d].value).value

\* The places <<k, d>> of the first index that is a number outside its
\* axis's range, all records before it being good (none or one place).
Offending(layout) ==
    LET tokens == layout.tokens
        n == parse_int(tokens[1].value).value
        records == (Len(tokens) - 2 * n - 1) \div (n + 1)
    IN  { place \in (1..records) \X (1..n) :
            /\ parse_int(RecordAt(tokens, n, place[1])[place[2]].value).is_some
            /\ ~IndexInRange(tokens, n, place[1], place[2])
            /\ \A d \in 1..(place[2] - 1) : IndexInRange(tokens, n, place[1], d)
            /\ \A k \in 1..(place[1] - 1) :
                    /\ \A d \in 1..n : IndexInRange(tokens, n, k, d)
                    /\ parser(RecordAt(tokens, n, k)[n + 1].value).is_some }

OffendingToken(layout) ==
    LET place == CHOOSE place \in Offending(layout) : TRUE
    IN  RecordAt(layout.tokens, parse_int(layout.tokens[1].value).value, place[1])[place[2]]

\* C18: when an element line holds an index below the lower bound of its
\* axis or not below the upper bound, read_from_text returns an
\* index-out-of-bound failure and no tensor, and the line and column it
\* reports are those of the offending index token (from 1), also when blank
\* lines, comment lines or several separators come before that token.
C18_IndexOutOfBoundPosition ==
    (/\ io.source = "file"
     /\ io.status \in {"read", "written"}
     /\ WellLaidOut(Layout)
     /\ Offending(Layout) # {}) =>
        /\ ~result.ok
        /\ result.err = [kind |-> "IndexOutOfBoundError",
                         line |-> OffendingToken(Layout).line,
                         column |-> OffendingToken(Layout).column]

(***************************************************************************)
(* SpecFiber: fiber grouping on index matrices of up to MaxRows rows,      *)
(* sorted or not, and the COO kernel on the same inputs.                   *)
(***************************************************************************)
MaxRows == 3

FiberLayouts ==
    { [shape |-> <<axI, axJ>>, is_axis_dense |-> <<FALSE, FALSE>>],
      [shape |-> <<axI, axJ, axK>>, is_axis_dense |-> <<FALSE, FALSE, FALSE>>] }

\* A fully sparse tensor holding `rows`, every value 1, marked sorted under
\* `order`.
FiberTensor(layout, rows, order) ==
    [zeros(layout.shape, layout.is_axis_dense) EXCEPT
        !.indices = rows,
        !.values = [b \in 1..Len(rows) |-> <<1>>],
        !.sparse_sort_order = order]

InitFiber ==
    /\ tracer = NoTracer
    /\ rand = NoRand
    /\ \E layout \in FiberLayouts, n \in 0..MaxRows :
          \E rows \in [1..n -> IndexRows(layout.shape)],
             order \in Permutations3(layout.shape) :
                tensor = FiberTensor(layout, rows, order)
    /\ matrix \in { DenseMatrix(ax, axR, 1) : ax \in {axI, axJ, axK} }
    /\ algo = "coo"
    /\ phase = "input"
    /\ result = Err("pending")
    /\ par = NoPar
    /\ sort = NoSort
    /\ hist = NoHist
    /\ pool = NoPool
    /\ iter = NoIter
    /\ io = NoIo

\* compute_indices(tensor.indices(), common_axis_index): hist keeps what it
\* returns, the offsets counted from 0 as the code counts them.
ComputeIndices ==
    /\ phase = "input"
    /\ KStar # 0
    /\ LET r == compute_indices(tensor.indices, KStar)
       IN  hist' = [ out_indices |-> r.indices,
                     fiber_offsets |-> [f \in 1..Len(r.offsets) |-> r.offsets[f] - 1] ]
    /\ phase' = "grouped"
    /\ UNCHANGED <<tensor, matrix, algo, result, par, sort, pool, iter, io, rand, tracer>>

NextFiber == ComputeIndices \/ ExecuteCOO

SpecFiber == InitFiber /\ [][NextFiber]_vars

\* Row a comes before row b in the lexicographic order over the columns cols.
LexLess(a, b, cols) ==
    \E i \in 1..Len(cols) :
        /\ a[cols[i]] < b[cols[i]]
        /\ \A k \in 1..(i - 1) : a[cols[k]] = b[cols[k]]

\* The key columns of the input without the common axis, as columns of rows
\* that have the common column removed.
KeyColumnsWithoutCommon ==
    LET cols == SelectSeq(KeyColumns(tensor), LAMBDA c : c # KStar)
    IN  [i \in 1..Len(cols) |-> IF cols[i] > KStar THEN cols[i] - 1 ELSE cols[i]]

\* The rows are sorted under an order whose last key is the common axis.
SortedAlongCommon ==
    /\ KStar # 0
    /\ InputSorted
    /\ last_is(tensor.sparse_sort_order, matrix.dense_axes[1])

\* C19: on a tensor whose index rows are sorted under an order whose last key
\* is the common axis, fiber grouping makes exactly one fiber per distinct
\* tuple of non-common coordinates (all rows of out_indices differ pairwise),
\* the rows of out_indices are strictly increasing under the input's sort
\* order without the common axis, and the TTM result, which holds these
\* rows, is marked sorted under an order that is true of them.
C19_FibersOfSortedInput ==
    /\ (phase = "grouped" /\ SortedAlongCommon) =>
            /\ Len(hist.out_indices) = Cardinality(NonCommonTuples)
            /\ Range(hist.out_indices) = NonCommonTuples
            /\ \A f, g \in 1..Len(hist.out_indices) :
                    f # g => hist.out_indices[f] # hist.out_indices[g]
            /\ \A f \in 1..(Len(hist.out_indices) - 1) :
                    LexLess(hist.out_indices[f], hist.out_indices[f + 1],
                            KeyColumnsWithoutCommon)
    /\ (phase = "done" /\ result.ok /\ SortedAlongCommon) =>
            /\ result.tensor.indices = compute_indices(tensor.indices, KStar).indices
            /\ result.tensor.sparse_is_sorted
            /\ KeyColumns(result.tensor) = KeyColumnsWithoutCommon
            /\ \A f \in 1..(Len(result.tensor.indices) - 1) :
                    LexLess(result.tensor.indices[f], result.tensor.indices[f + 1],
                            KeyColumns(result.tensor))

\* Witness of C19: three sorted rows over three axes, the common axis in the
\* middle column, the first two rows in one fiber; grouped, and multiplied.
C19_Witness ==
    /\ phase = "grouped"
    /\ SortedAlongCommon
    /\ Len(tensor.indices) = 3
    /\ Len(tensor.sparse_axes) = 3
    /\ KStar = 2
    /\ tensor.indices[1] # tensor.indices[2]
    /\ Len(hist.out_indices) = 2
    /\ hist.fiber_offsets = <<0, 2, 3>>

\* C20: for every index matrix with M rows, sorted or not, fiber_offsets has
\* F + 1 entries, F the number of rows of out_indices, starts with 0, ends
\* with M and is strictly increasing; so F <= M, F = 0 exactly when M = 0,
\* and no fiber is empty.
C20_FiberOffsets ==
    phase = "grouped" =>
        LET F == Len(hist.out_indices)
            M == Len(tensor.indices)
        IN  /\ Len(hist.fiber_offsets) = F + 1
            /\ hist.fiber_offsets[1] = 0
            /\ hist.fiber_offsets[F + 1] = M
            /\ \A f \in 1..F : hist.fiber_offsets[f] < hist.fiber_offsets[f + 1]
            /\ F <= M
            /\ (F = 0) <=> (M = 0)

\* Witness of C20: three rows that are not sorted, the first and the last
\* with the same non-common coordinates; they make three fibers.
C20_Witness ==
    /\ phase = "grouped"
    /\ ~RowsOrdered(tensor.indices, KeyColumns(tensor))
    /\ Len(tensor.indices) = 3
    /\ RemoveAt(tensor.indices[1], KStar) = RemoveAt(tensor.indices[3], KStar)
    /\ hist.fiber_offsets = <<0, 1, 2, 3>>

\* C21: for every fiber f and every input row m with fiber_offsets[f] <= m <
\* fiber_offsets[f + 1], indices[m] equals out_indices[f] on every column but
\* the common one, out_indices[f] being row fiber_offsets[f] with the common
\* column removed and the other columns kept in order; and any two
\* consecutive rows of out_indices differ in some column.  Rows and fibers
\* are counted from 0 in the code and from 1 in the sequences here.
C21_FiberRowsAgree ==
    phase = "grouped" =>
        /\ \A f \in 1..Len(hist.out_indices) :
              /\ hist.out_indices[f]
                    = RemoveAt(tensor.indices[hist.fiber_offsets[f] + 1], KStar)
              /\ \A m \in hist.fiber_offsets[f]..(hist.fiber_offsets[f + 1] - 1) :
                    \A c \in 1..Len(tensor.indices[m + 1]) :
                        c # KStar =>
                            tensor.indices[m + 1][c]
                                = hist.out_indices[f][IF c < KStar THEN c ELSE c - 1]
        /\ \A f \in 1..(Len(hist.out_indices) - 1) :
              hist.out_indices[f] # hist.out_indices[f + 1]

\* Witness of C21: three rows over three axes, the common axis in the middle
\* column; the first fiber holds two rows that differ in the common column,
\* and the rows are not sorted.
C21_Witness ==
    /\ phase = "grouped"
    /\ Len(tensor.sparse_axes) = 3
    /\ KStar = 2
    /\ hist.fiber_offsets = <<0, 2, 3>>
    /\ tensor.indices[1][2] # tensor.indices[2][2]
    /\ ~RowsOrdered(tensor.indices, KeyColumns(tensor))

\* The (index row, value block) pairs of the blocks, as a multiset: how many
\* blocks hold each pair.
BlockPairs(indices, values) ==
    LET pair(m) == <<indices[m], values[m]>>
    IN  [p \in {pair(m) : m \in 1..Len(indices)} |->
            Cardinality({m \in 1..Len(indices) : pair(m) = p})]

\* C22: Sort only permutes blocks: after every step of SortCOOTensor::execute
\* and at its end, the multiset of (index row, value block) pairs of the
\* tensor is the multiset before the sort; no row is duplicated, lost or
\* separated from its value.
C22_SortOnlyPermutes ==
    sort.status # "idle" =>
        /\ Len(tensor.indices) = Len(tensor.values)
        /\ Len(tensor.indices) = Len(sort.input.indices)
        /\ BlockPairs(tensor.indices, tensor.values)
              = BlockPairs(sort.input.indices, sort.input.values)

\* Witness of C22: a sort in progress has exchanged two blocks that differ
\* in their rows and in their values.
C22_Witness ==
    /\ sort.status = "running"
    /\ Len(tensor.indices) = 2
    /\ tensor.indices # sort.input.indices
    /\ tensor.values # sort.input.values

\* One step of the running tasks, seen from the shared output: a row (slab)
\* r whose cells change is changed by the store of the task of fiber r and
\* of no other task, and the value a task loads is that of the cell of its
\* own row its loop counters stand at.
TasksKeepToTheirRows ==
    (phase = "running" /\ phase' = "running") =>
        /\ Len(par'.values) = Len(par.values)
        /\ \A r \in 1..Len(par.values) :
              par'.values[r] # par.values[r] =>
                  /\ par.task[r].pc = "store"
                  /\ par'.task[r] # par.task[r]
                  /\ \A k \in 1..Len(par.task) : k # r => par'.task[k] = par.task[k]
                  /\ \A q \in 1..Len(par.values) : q # r => par'.values[q] = par.values[q]
                  /\ \A x \in 1..Len(par.values[r]) :
                        par'.values[r][x] # par.values[r][x] => x = par.task[r].x
        /\ \A i \in 1..Len(par.task) :
              (par.task[i].pc = "load" /\ par'.task[i].pc = "store") =>
                  /\ par'.task[i].loaded = par.values[i][par.task[i].x]
                  /\ par'.values = par.values
        /\ tensor' = tensor
        /\ matrix' = matrix

\* The parallel call has returned only if every fiber task is over.
JoinedBeforeReturn ==
    (phase = "done" /\ result.ok /\ runs_parallel(algo, par.multi_thread)) =>
        /\ Len(par.task) = Len(result.tensor.values)
        /\ \A i \in 1..Len(par.task) : par.task[i].pc = "done"
        /\ result.tensor.values = par.values

\* C23: in the multi-threaded TTM paths the task of fiber i writes only
\* cells of output row i (COO) or of output slab i (semi-COO), the only cell
\* of the output it reads is the one of its own row it is about to write,
\* the input tensor and the matrix are not written, so under every
\* interleaving no two tasks write the same cell and no task reads a cell
\* another task writes; and execute returns only after every fiber task has
\* finished.
C23_TasksWriteOwnRows ==
    [][TasksKeepToTheirRows]_vars /\ []JoinedBeforeReturn

\* Witness of C23: two fiber tasks are in progress at the same time, each
\* has stored a sum into its own row, and neither is over.
C23_Witness ==
    /\ phase = "running"
    /\ Len(par.task) >= 2
    /\ par.overlapped
    /\ par.task[1].pc \in {"load", "store"}
    /\ par.task[2].pc \in {"load", "store"}
    /\ \E x \in 1..Len(par.values[1]) : par.values[1][x] > 0
    /\ \E x \in 1..Len(par.values[2]) : par.values[2][x] > 0

\* The checks execute makes before it calls compute_indices and
\* compute_values: TRUE when all of them pass and the kernel runs.
kernel_runs(kernel, t, m) ==
    /\ kernel = "coo" => t.dense_axes = <<>>
    /\ ndim(m) = 2
    /\ m.sparse_axes = <<>>
    /\ common_axis_error(t, m) = ""
    /\ sort_state_error(t, m) = ""
    /\ \A j \in 1..Len(t.indices) :
          Len(t.values[j]) = (IF kernel = "coo" THEN 1 ELSE dense_block_size(t))

\* matrix_values.nrows(): the rows of block 0 of the matrix as the array
\* holds them.
matrix_nrows(m) == Len(m.values[1]) \div matrix_ncols(m)

\* Every get_unchecked / uget / get of compute_values is inside its array:
\* the fiber ranges, the tensor value, the matrix row and element.
AccessesInRange(kernel, t, m) ==
    LET common_axis == m.dense_axes[1]
        common_axis_index == map_axes(m.dense_axes, t.sparse_axes)[1]
        grouped == compute_indices(t.indices, common_axis_index)
        num_fibers == Len(grouped.indices)
        block == IF kernel = "coo" THEN 1 ELSE dense_block_size(t)
    IN  /\ Len(grouped.offsets) = num_fibers + 1
        /\ \A i \in 1..num_fibers :
              /\ grouped.offsets[i] < grouped.offsets[i + 1]
              /\ grouped.offsets[i + 1] - 1 <= Len(t.indices)
              /\ \A j \in grouped.offsets[i]..(grouped.offsets[i + 1] - 1) :
                    LET r == matrix_row(t.indices[j][common_axis_index], common_axis)
                    IN  /\ j \in 1..Len(t.indices)
                        /\ common_axis_index \in 1..Len(t.indices[j])
                        /\ t.indices[j][common_axis_index] >= lower(common_axis)
                        /\ 0 <= r
                        /\ r < matrix_nrows(m)
                        /\ j \in 1..Len(t.values)
                        /\ \A k \in 1..block : k \in 1..Len(t.values[j])
                        /\ \A c \in 1..matrix_ncols(m) :
                              r * matrix_ncols(m) + c \in 1..Len(m.values[1])

\* The result array is F x r (COO) or F x P x r (semi-COO), the cells the
\* loops write.
ResultArrayFits(kernel, t, m, res) ==
    LET common_axis_index == map_axes(m.dense_axes, t.sparse_axes)[1]
        num_fibers == Len(compute_indices(t.indices, common_axis_index).indices)
    IN  /\ Len(res.values) = num_fibers
        /\ Len(res.indices) = num_fibers
        /\ \A i \in 1..num_fibers : Len(res.values[i]) = task_cells(kernel, t, m)

\* C24: every unchecked access of the TTM kernels is in range.  For every
\* tensor whose rows passed push_block's range check and every one-block
\* matrix, whenever the checks of execute let the kernel run, each matrix row
\* r = indices[m, k*] - common_axis.lower() is computed without underflow and
\* is below the number of matrix rows, each fiber range has begin < end <= M,
\* and the result array has a row (slab) for every fiber; any other input is
\* rejected before the kernel.
C24_AccessesInRange ==
    /\ kernel_runs(algo, tensor, matrix) => AccessesInRange(algo, tensor, matrix)
    /\ phase = "done" =>
          /\ result.ok <=> kernel_runs(algo, tensor, matrix)
          /\ result.ok => ResultArrayFits(algo, tensor, matrix, result.tensor)

\* Witness of C24: the kernel has run on a tensor whose common axis starts
\* at 1, one block at the axis's first coordinate and one at its last, so
\* that the first and the last matrix row were read.
C24_Witness ==
    /\ phase = "done"
    /\ result.ok
    /\ lower(matrix.dense_axes[1]) = 1
    /\ LET c == map_axes(matrix.dense_axes, tensor.sparse_axes)[1]
       IN  /\ \E j \in 1..Len(tensor.indices) : tensor.indices[j][c] = 1
           /\ \E j \in 1..Len(tensor.indices) :
                 tensor.indices[j][c] - 1 = matrix_nrows(matrix) - 1

(***************************************************************************)
(* CreateRandomCOOTensor.  A density is a number of quarters, 0..4 for     *)
(* 0, 0.25, 0.5, 0.75 and 1.  execute draws coordinate tuples until        *)
(* num_non_zeros of them have passed the duplicate test; every tuple       *)
(* inside the axes may come out of a draw.  Values are drawn from a        *)
(* normal distribution; two values stand for them.                         *)
(***************************************************************************)
\* calc_strides: strides[i] is the product of the lengths of the axes after
\* axis i, total_size the product of all lengths.
calc_strides(shape) ==
    [ strides |-> [i \in 1..Len(shape) |->
                     Product([k \in 1..(Len(shape) - i) |-> size(shape[i + k])])],
      total_size |-> Product([i \in 1..Len(shape) |-> size(shape[i])]) ]

\* index_to_offset: the terms (idx - axis.lower()) * stride, folded with
\* .product().
index_to_offset(index, shape, index_strides) ==
    Product([i \in 1..Len(index) |-> (index[i] - lower(shape[i])) * index_strides[i]])

\* (total_size as f64 * density).round(), halves away from zero.
num_non_zeros(total_size, quarters) == (2 * total_size * quarters + 4) \div 8

\* The shapes and densities execute is called with.
RandomShapes == { <<>>, <<axI>>, <<axR>>, <<axI, axJ>>, <<axJ, axR>> }

Quarters == 0..4

\* The values Normal::new(mean, std_dev) yields.
RandomValues == {1, 2}

InitRandom ==
    /\ tracer = NoTracer
    /\ tensor = NoTensor
    /\ matrix = NoTensor
    /\ algo = "random"
    /\ phase = "input"
    /\ result = Err("pending")
    /\ par = NoPar
    /\ sort = NoSort
    /\ hist = NoHist
    /\ pool = NoPool
    /\ iter = NoIter
    /\ io = NoIo
    /\ \E shape \in RandomShapes, density \in Quarters :
          rand = [status |-> "new", shape |-> shape, density |-> density,
                  strides |-> <<>>, num_non_zeros |-> 0,
                  index_hashtable |-> {}, indices |-> <<>>]

\* execute up to the loop over the rows: zeros, calc_strides, num_non_zeros,
\* an empty index_hashtable.
RandomBegin ==
    /\ rand.status = "new"
    /\ tensor' = zeros(rand.shape, [i \in 1..Len(rand.shape) |-> FALSE])
    /\ rand' = [rand EXCEPT
                  !.status = "drawing",
                  !.strides = calc_strides(rand.shape).strides,
                  !.num_non_zeros = num_non_zeros(calc_strides(rand.shape).total_size,
                                                  rand.density)]
    /\ phase' = "running"
    /\ UNCHANGED <<matrix, algo, result, par, sort, hist, pool, iter, io, tracer>>

\* One turn of `loop`: index_buffer is drawn, its offset is inserted into
\* index_hashtable, and the row is assigned when the offset was new.
RandomDraw(index_buffer) ==
    /\ rand.status = "drawing"
    /\ Len(rand.indices) < rand.num_non_zeros
    /\ LET offset == index_to_offset(index_buffer, rand.shape, rand.strides)
       IN  rand' = IF offset \notin rand.index_hashtable
                   THEN [rand EXCEPT !.index_hashtable = @ \cup {offset},
                                     !.indices = Append(@, index_buffer)]
                   ELSE rand
    /\ UNCHANGED <<tensor, matrix, algo, phase, result, par, sort, hist, pool, iter, io, tracer>>

\* After the last row: indices and values are stored through raw_parts_mut
\* and the tensor is returned.
RandomReturn ==
    /\ rand.status = "drawing"
    /\ Len(rand.indices) = rand.num_non_zeros
    /\ \E values \in [1..rand.num_non_zeros -> RandomValues] :
          tensor' = [tensor EXCEPT
                       !.indices = rand.indices,
                       !.values = [m \in 1..rand.num_non_zeros |-> <<values[m]>>]]
    /\ rand' = [rand EXCEPT !.status = "returned"]
    /\ phase' = "done"
    /\ UNCHANGED <<matrix, algo, result, par, sort, hist, pool, iter, io, tracer>>

NextRandom ==
    \/ RandomBegin
    \/ \E index_buffer \in IndexRows(rand.shape) : RandomDraw(index_buffer)
    \/ RandomReturn

SpecRandom == InitRandom /\ [][NextRandom]_vars

\* Fair sampling: a tuple whose draw would be accepted is drawn at some
\* time, and the statements after the loop are executed.
SpecRandomFair ==
    /\ SpecRandom
    /\ \A index_buffer \in UNION { IndexRows(shape) : shape \in RandomShapes } :
          WF_vars(index_buffer \in IndexRows(rand.shape) /\ RandomDraw(index_buffer))
    /\ WF_vars(RandomBegin)
    /\ WF_vars(RandomReturn)

\* The order sparse_sort_order() returns is a permutation of sparse_axes.
IsPermutationOfSparseAxes(t) ==
    /\ Len(t.sparse_sort_order) = Len(t.sparse_axes)
    /\ \A i \in 1..Len(t.sparse_axes) :
          Cardinality({ k \in 1..Len(t.sparse_sort_order) :
                          AxisEq(t.sparse_sort_order[k], t.sparse_axes[i]) }) = 1

\* Whenever sparse_sort_order() returns an order, the order is a permutation
\* of sparse_axes and the rows are non-decreasing under it.
SortedFlagTruthful(t) ==
    sparse_sort_order(t).is_some =>
        /\ IsPermutationOfSparseAxes(t)
        /\ RowsOrdered(t.indices, KeyColumns(t))

\* C25: sorted-flag truthfulness of every tensor the library produces; here
\* of the tensor CreateRandomCOOTensor::execute returns: whenever
\* sparse_sort_order() returns an order, the order is a permutation of
\* sparse_axes and the rows of indices are non-decreasing under it.
C25_SortedFlagTruthful ==
    rand.status = "returned" => SortedFlagTruthful(tensor)

\* The duplicate test is exact: two coordinate tuples inside the axes get
\* the same offset only when they are the same tuple.
OffsetsTellTuplesApart ==
    rand.status = "drawing" =>
        \A a, b \in IndexRows(rand.shape) :
            index_to_offset(a, rand.shape, rand.strides)
                = index_to_offset(b, rand.shape, rand.strides) => a = b

\* The tensor returned holds exactly round(total_size * density) blocks,
\* their rows pairwise distinct and inside the axes.
RandomTensorAsAsked ==
    rand.status = "returned" =>
        /\ Len(tensor.indices) = num_non_zeros(calc_strides(rand.shape).total_size,
                                               rand.density)
        /\ Len(tensor.values) = Len(tensor.indices)
        /\ \A m \in 1..Len(tensor.indices) : tensor.indices[m] \in IndexRows(rand.shape)
        /\ \A m, n \in 1..Len(tensor.indices) :
              tensor.indices[m] = tensor.indices[n] => m = n

\* C30: CreateRandomCOOTensor::execute terminates for every shape and every
\* density in [0, 1] under fair sampling, returns exactly
\* round(total_size * density) blocks with pairwise distinct rows inside the
\* axes, and its duplicate test gives two tuples the same key only when the
\* tuples are equal.
C30_RandomTensorTerminates ==
    /\ <>(rand.status = "returned")
    /\ []RandomTensorAsAsked
    /\ []OffsetsTellTuplesApart

(***************************************************************************)
(* COOIterMut.  raw_data_mut() hands out indices and values; rows_mut() of *)
(* values is taken to give one lane per block, the block's elements in     *)
(* storage order, and dense_storage_order() the dense axes in that order.  *)
(* A cursor holds how many rows indices_iter and values_block_iter have    *)
(* handed out, the block values_iter runs over and how many of its         *)
(* elements it has handed out, and the two index buffers.                  *)
(***************************************************************************)
\* COOIterMut::new
iter_mut_new(t) ==
    [ rows_taken |-> 0,
      values_iter |-> None,
      sparse_index |-> [c \in 1..Len(t.sparse_axes) |-> 0],
      dense_index |-> [d \in 1..Len(t.dense_axes) |-> 0] ]

\* next_block: the next row of indices becomes sparse_index, dense_index is
\* set from the lower bounds of the first axes of shape, values_iter starts
\* over on the next block; None when indices_iter has no row left.
next_block(t, cur) ==
    IF cur.rows_taken >= Len(t.indices) THEN [is_some |-> FALSE, cursor |-> cur]
    ELSE [ is_some |-> TRUE,
           cursor |->
             [ rows_taken |-> cur.rows_taken + 1,
               values_iter |-> Some([block |-> cur.rows_taken + 1, taken |-> 0]),
               sparse_index |-> t.indices[cur.rows_taken + 1],
               dense_index |-> [d \in 1..Len(cur.dense_index) |->
                                  IF d <= Len(t.shape) THEN lower(t.shape[d])
                                  ELSE cur.dense_index[d]] ] ]

\* next_dense_index: from the last dense axis down, an entry below its
\* axis's upper bound is raised by one, any other is set back to lower.
RECURSIVE next_dense_index(_, _, _)
next_dense_index(t, cur, i) ==
    IF i = 0 THEN [is_some |-> FALSE, cursor |-> cur]
    ELSE IF cur.dense_index[i] < t.dense_axes[i].upper
         THEN [is_some |-> TRUE,
               cursor |-> [cur EXCEPT !.dense_index[i] = @ + 1]]
         ELSE next_dense_index(t, [cur EXCEPT !.dense_index[i] = lower(t.dense_axes[i])],
                               i - 1)

\* `while value.is_none() { self.next_block()?; value = values_iter.next() }`
RECURSIVE next_value(_, _)
next_value(t, cur) ==
    LET nb == next_block(t, cur)
    IN  IF ~nb.is_some THEN [is_some |-> FALSE, cursor |-> nb.cursor]
        ELSE LET b == nb.cursor.values_iter.value.block
             IN  IF Len(t.values[b]) = 0 THEN next_value(t, nb.cursor)
                 ELSE [ is_some |-> TRUE,
                        cursor |-> [nb.cursor EXCEPT !.values_iter.value.taken = 1] ]

\* The index handed out: for every axis of shape the entry index_map points
\* at, in sparse_index or in dense_index.
iter_mut_index(t, cur) ==
    [k \in 1..Len(t.shape) |->
        IF position(t.sparse_axes, t.shape[k]) # 0
        THEN cur.sparse_index[position(t.sparse_axes, t.shape[k])]
        ELSE cur.dense_index[position(t.dense_axes, t.shape[k])]]

\* Iterator::next of COOIterMut: the cursor afterwards and the item, the
\* value being the element the mutable reference points at.
iter_mut_next(t, cur) ==
    LET stepped == IF ~cur.values_iter.is_some THEN [is_some |-> FALSE, cursor |-> cur]
                   ELSE next_dense_index(t, cur, Len(cur.dense_index))
        first == IF stepped.is_some THEN stepped ELSE next_block(t, stepped.cursor)
    IN  IF ~first.is_some THEN [cursor |-> first.cursor, item |-> None]
        ELSE LET found == next_value(t, first.cursor)
             IN  IF ~found.is_some THEN [cursor |-> found.cursor, item |-> None]
                 ELSE [ cursor |-> found.cursor,
                        item |-> Some(
                          [ index |-> iter_mut_index(t, found.cursor),
                            value |-> t.values[found.cursor.values_iter.value.block]
                                              [found.cursor.values_iter.value.taken] ]) ]

(***************************************************************************)
(* SpecIterMut: one COOIterMut over a tensor, next() called until it       *)
(* returns nothing.  iter.yielded is history: the items next() returned.   *)
(***************************************************************************)
InitIterMut ==
    /\ tracer = NoTracer
    /\ tensor \in UNION { IterTensors(layout) : layout \in IterLayouts }
    /\ matrix = NoTensor
    /\ algo = "iter_mut"
    /\ phase = "input"
    /\ result = Err("pending")
    /\ par = NoPar
    /\ sort = NoSort
    /\ hist = NoHist
    /\ pool = NoPool
    /\ iter = NoIter
    /\ io = NoIo
    /\ rand = NoRand

\* let mut it = tensor.iter_mut();
IterMutNew ==
    /\ phase = "input"
    /\ iter' = [ status |-> "open", cursor |-> iter_mut_new(tensor),
                 yielded |-> <<>>, ended |-> FALSE, past_end |-> 0 ]
    /\ phase' = "running"
    /\ UNCHANGED <<tensor, matrix, algo, result, par, sort, hist, pool, io, rand, tracer>>

\* it.next()
IterMutNext ==
    /\ phase = "running"
    /\ ~iter.ended
    /\ LET got == iter_mut_next(tensor, iter.cursor)
       IN  iter' = [iter EXCEPT
                      !.cursor = got.cursor,
                      !.yielded = IF got.item.is_some THEN Append(@, got.item.value) ELSE @,
                      !.ended = ~got.item.is_some]
    /\ UNCHANGED <<tensor, matrix, algo, phase, result, par, sort, hist, pool, io, rand, tracer>>

NextIterMut == IterMutNew \/ IterMutNext

SpecIterMut == InitIterMut /\ [][NextIterMut]_vars

\* C26: iter_mut() visits the same elements as iter().  For every tensor it
\* yields every stored element exactly once, in the order and with the
\* logical index of iter(), block 0 first and no block skipped, the value
\* being the stored one.
C26_IterMutVisitsAsIter ==
    (algo = "iter_mut" /\ iter.status = "open") =>
        /\ Len(iter.yielded) <= Len(ExpectedItems)
        /\ \A e \in 1..Len(iter.yielded) : iter.yielded[e] = ExpectedItems[e]
        /\ iter.ended => iter.yielded = ExpectedItems

(***************************************************************************)
(* SpecBuild: threads that build axes at the same time.  A thread fills in *)
(* a builder of its own and then calls build; COUNTER.fetch_add is one     *)
(* atomic read-modify-write, so a call of build is one step, and the calls *)
(* of the threads interleave freely.  pool.thread is history: the thread   *)
(* that built each axis, the axes standing in the order of their builds.   *)
(***************************************************************************)
InitBuild ==
    /\ tracer = NoTracer
    /\ pool = [ axes |-> <<>>, counter |-> 0, root |-> <<>>, thread |-> <<>>,
                builder |-> [th \in 1..MaxThreads |-> None] ]
    /\ tensor = NoTensor
    /\ matrix = NoTensor
    /\ algo = "build"
    /\ phase = "input"
    /\ result = Err("pending")
    /\ par = NoPar
    /\ sort = NoSort
    /\ hist = NoHist
    /\ iter = NoIter
    /\ io = NoIo
    /\ rand = NoRand

\* Thread th: AxisBuilder::new().range(range)
ThreadRange(th) ==
    /\ ~pool.builder[th].is_some
    /\ Len(pool.axes) < MaxAxes
    /\ \E range \in AxisRanges :
          pool' = [pool EXCEPT !.builder[th] = Some([label |-> None, range |-> range])]
    /\ UNCHANGED <<tensor, matrix, algo, phase, result, par, sort, hist, iter, io, rand, tracer>>

\* Thread th: builder.build()
ThreadBuild(th) ==
    /\ pool.builder[th].is_some
    /\ Len(pool.axes) < MaxAxes
    /\ LET made == build(pool.builder[th].value, pool.counter)
       IN  pool' = [pool EXCEPT !.axes = Append(@, made.axis),
                                !.counter = made.counter,
                                !.root = Append(@, pool.counter),
                                !.thread = Append(@, th),
                                !.builder[th] = None]
    /\ UNCHANGED <<tensor, matrix, algo, phase, result, par, sort, hist, iter, io, rand, tracer>>

NextBuild ==
    \/ \E th \in 1..MaxThreads : ThreadRange(th)
    \/ \E th \in 1..MaxThreads : ThreadBuild(th)

SpecBuild == InitBuild /\ [][NextBuild]_vars

\* C27: axis identities never collide.  When threads call AxisBuilder::build
\* at the same time, in any interleaving, every built axis has an id
\* different from the id of every other built axis, and the ids one thread
\* was handed are strictly increasing in the order of its calls.
C27_AxisIdsNeverCollide ==
    algo = "build" =>
        /\ \A a, b \in 1..Len(pool.axes) :
              a # b => pool.axes[a].id # pool.axes[b].id
        /\ \A a, b \in 1..Len(pool.axes) :
              (a < b /\ pool.thread[a] = pool.thread[b]) =>
                  pool.axes[a].id < pool.axes[b].id

\* Witness of C27: two threads have built two axes each, their builds
\* alternating, while the other thread held a builder of its own.
C27_Witness ==
    /\ algo = "build"
    /\ Len(pool.axes) = 4
    /\ pool.thread = <<1, 2, 1, 2>>
    /\ pool.axes[1].lower = pool.axes[2].lower

\* C29: the multi_thread flag selects the execution path.  With multi_thread
\* = false both kernels accumulate every fiber on the calling thread, no
\* task being handed to the thread pool, and with multi_thread = true the
\* fibers of an accepted call are handed to the pool.
C29_FlagSelectsPath ==
    par.threads > 0 =>
        /\ phase = "running" => par.multi_thread
        /\ ~par.multi_thread => (par.task = <<>> /\ par.offsets = <<>>)
        /\ (phase = "done" /\ result.ok /\ par.multi_thread) => par.offsets # <<>>

(***************************************************************************)
(* The file Tracer.  new_to_file makes a bounded channel, a Parker and the *)
(* writer thread; a Tracer handle holds a Sender and a share of the        *)
(* Arc<ThreadWaiter>.  Dropping a handle drops its Sender and then its     *)
(* share of the Arc (fields drop in the order they are declared), and the  *)
(* drop of the last share runs ThreadWaiter::drop, which parks.  The       *)
(* writer leaves its `for record in rx` when the channel is empty and no   *)
(* Sender is left; its BufWriter, declared after the defer guard, is       *)
(* dropped (and so flushed) before the guard unparks.  tracer.sent and     *)
(* tracer.consumed are history: the records in the order they entered the  *)
(* channel and in the order the writer took them.                          *)
(***************************************************************************)
\* Largest number of Tracer handles (the first and its clones).
MaxHandles == 2

\* Largest number of records sent.
MaxRecords == 3

\* The capacity of the channel, DEFAULT_EVENT_BUFFER_SIZE (256 in the code).
EventBufferSize == 2

\* The handles that hold a Sender.
senders(tr) == { h \in 1..MaxHandles : tr.handle[h] = "live" }

\* The handles that hold a share of the Arc<ThreadWaiter>.
waiter_shares(tr) == { h \in 1..MaxHandles : tr.handle[h] \in {"live", "tx_dropped"} }

\* drop_waiter that never parks.
drop_waiter_no_park(tr, h) == "dropped"

\* The drop of handle h's share of the Arc: the last share runs
\* ThreadWaiter::drop and parks, any other share is just given up.
drop_waiter(tr, h) ==
    IF waiter_shares(tr) = {h} THEN "parked" ELSE "dropped"

\* Tracer::new_to_file: one handle, an empty channel, the writer spawned.
InitTracer ==
    /\ tracer = [ status |-> "file",
                  handle |-> [h \in 1..MaxHandles |-> IF h = 1 THEN "live" ELSE "none"],
                  channel |-> <<>>,
                  sent |-> <<>>,
                  consumed |-> <<>>,
                  was_full |-> FALSE,
                  writer |-> "header",
                  buffer |-> <<>>,
                  file |-> <<>>,
                  token |-> FALSE ]
    /\ tensor = NoTensor
    /\ matrix = NoTensor
    /\ algo = "tracer"
    /\ phase = "input"
    /\ result = Err("pending")
    /\ par = NoPar
    /\ sort = NoSort
    /\ hist = NoHist
    /\ pool = NoPool
    /\ iter = NoIter
    /\ io = NoIo
    /\ rand = NoRand

\* tracer.clone(): handle g is made from the live handle h.
TracerClone(h, g) ==
    /\ tracer.handle[h] = "live"
    /\ tracer.handle[g] = "none"
    /\ tracer' = [tracer EXCEPT !.handle[g] = "live"]
    /\ UNCHANGED <<tensor, matrix, algo, phase, result, par, sort, hist, pool, iter, io, rand>>

\* Event::finish or the drop of an EventGuard started on handle h:
\* tx.send(record), which waits while the channel is full.
Send(h) ==
    /\ tracer.handle[h] = "live"
    /\ Len(tracer.sent) < MaxRecords
    /\ Len(tracer.channel) < EventBufferSize
    /\ LET record == [name |-> Len(tracer.sent) + 1, from |-> h]
       IN  tracer' = [tracer EXCEPT
                        !.channel = Append(@, record),
                        !.sent = Append(@, record),
                        !.was_full = @ \/ Len(tracer.channel) + 1 = EventBufferSize]
    /\ UNCHANGED <<tensor, matrix, algo, phase, result, par, sort, hist, pool, iter, io, rand>>

\* The drop of handle h, first field: its Sender.
DropSender(h) ==
    /\ tracer.handle[h] = "live"
    /\ tracer' = [tracer EXCEPT !.handle[h] = "tx_dropped"]
    /\ UNCHANGED <<tensor, matrix, algo, phase, result, par, sort, hist, pool, iter, io, rand>>

\* The drop of handle h, second field: its share of the Arc<ThreadWaiter>.
DropWaiter(h) ==
    /\ tracer.handle[h] = "tx_dropped"
    /\ tracer' = [tracer EXCEPT !.handle[h] = drop_waiter(tracer, h)]
    /\ UNCHANGED <<tensor, matrix, algo, phase, result, par, sort, hist, pool, iter, io, rand>>

\* parker.park() returns once the token is there, and takes it.
ParkReturns(h) ==
    /\ tracer.handle[h] = "parked"
    /\ tracer.token
    /\ tracer' = [tracer EXCEPT !.handle[h] = "dropped", !.token = FALSE]
    /\ UNCHANGED <<tensor, matrix, algo, phase, result, par, sort, hist, pool, iter, io, rand>>

\* The writer writes the header line to the file.
WriterHeader ==
    /\ tracer.writer = "header"
    /\ tracer' = [tracer EXCEPT !.writer = "loop"]
    /\ UNCHANGED <<tensor, matrix, algo, phase, result, par, sort, hist, pool, iter, io, rand>>

\* One turn of `for record in rx`: the oldest record of the channel is taken
\* and its line written into the BufWriter.
WriterReceive ==
    /\ tracer.writer = "loop"
    /\ tracer.channel # <<>>
    /\ tracer' = [tracer EXCEPT
                    !.channel = Tail(@),
                    !.consumed = Append(@, Head(tracer.channel)),
                    !.buffer = Append(@, Head(tracer.channel))]
    /\ UNCHANGED <<tensor, matrix, algo, phase, result, par, sort, hist, pool, iter, io, rand>>

\* The BufWriter passes what it holds on to the file when it is full.
WriterBufferFull ==
    /\ tracer.writer = "loop"
    /\ tracer.buffer # <<>>
    /\ tracer' = [tracer EXCEPT !.file = @ \o tracer.buffer, !.buffer = <<>>]
    /\ UNCHANGED <<tensor, matrix, algo, phase, result, par, sort, hist, pool, iter, io, rand>>

\* rx yields nothing more: the channel is empty and every Sender is dropped.
WriterDisconnected ==
    /\ tracer.writer = "loop"
    /\ tracer.channel = <<>>
    /\ senders(tracer) = {}
    /\ tracer' = [tracer EXCEPT !.writer = "flush"]
    /\ UNCHANGED <<tensor, matrix, algo, phase, result, par, sort, hist, pool, iter, io, rand>>

\* The BufWriter is dropped: what it holds goes to the file.
WriterFlush ==
    /\ tracer.writer = "flush"
    /\ tracer' = [tracer EXCEPT !.file = @ \o tracer.buffer, !.buffer = <<>>,
                                !.writer = "unpark"]
    /\ UNCHANGED <<tensor, matrix, algo, phase, result, par, sort, hist, pool, iter, io, rand>>

\* The defer guard runs finish.unpark().
WriterUnpark ==
    /\ tracer.writer = "unpark"
    /\ tracer' = [tracer EXCEPT !.token = TRUE, !.writer = "return"]
    /\ UNCHANGED <<tensor, matrix, algo, phase, result, par, sort, hist, pool, iter, io, rand>>

\* thread_main_with_file returns and the thread ends.
WriterExit ==
    /\ tracer.writer = "return"
    /\ tracer' = [tracer EXCEPT !.writer = "terminated"]
    /\ UNCHANGED <<tensor, matrix, algo, phase, result, par, sort, hist, pool, iter, io, rand>>

NextTracer ==
    \/ \E h, g \in 1..MaxHandles : TracerClone(h, g)
    \/ \E h \in 1..MaxHandles : Send(h)
    \/ \E h \in 1..MaxHandles : DropSender(h)
    \/ \E h \in 1..MaxHandles : DropWaiter(h)
    \/ \E h \in 1..MaxHandles : ParkReturns(h)
    \/ WriterHeader
    \/ WriterReceive
    \/ WriterBufferFull
    \/ WriterDisconnected
    \/ WriterFlush
    \/ WriterUnpark
    \/ WriterExit

SpecTracer == InitTracer /\ [][NextTracer]_vars

\* The scheduler lets the writer thread and a thread that is inside a drop
\* run; nothing is asked of the threads that still hold a live handle.
SpecTracerFair ==
    /\ SpecTracer
    /\ WF_vars(WriterHeader \/ WriterReceive \/ WriterDisconnected
                 \/ WriterFlush \/ WriterUnpark \/ WriterExit)
    /\ \A h \in 1..MaxHandles : WF_vars(DropWaiter(h))
    /\ \A h \in 1..MaxHandles : WF_vars(ParkReturns(h))

\* Every record sent is in the channel or was taken by the writer, once and
\* in the order of the channel; the channel never holds more than its
\* capacity; what the writer took is in its buffer or in the file.
DeliveredInOrder ==
    tracer.status = "file" =>
        /\ tracer.sent = tracer.consumed \o tracer.channel
        /\ Len(tracer.channel) <= EventBufferSize
        /\ tracer.consumed = tracer.file \o tracer.buffer

\* Every handle made has been dropped and every drop has returned.
AllHandlesDropped ==
    /\ tracer.status = "file"
    /\ \A h \in 1..MaxHandles : tracer.handle[h] \in {"none", "dropped"}

\* When the drop of the last handle has returned, the channel is drained,
\* the buffer flushed into the file, and the writer is past its unpark.
DropWaitsForWriter ==
    AllHandlesDropped =>
        /\ tracer.channel = <<>>
        /\ tracer.buffer = <<>>
        /\ tracer.file = tracer.sent
        /\ tracer.writer \in {"return", "terminated"}

\* A drop that has begun returns.
DropReturns ==
    \A h \in 1..MaxHandles :
        (tracer.status = "file" /\ tracer.handle[h] \in {"tx_dropped", "parked"})
            ~> (tracer.handle[h] = "dropped")

\* C28 as stated: tracer delivery and shutdown.  Dropping the last handle of
\* a file tracer returns only after the writer thread has drained the
\* channel, flushed its buffer and terminated.
C28_DropAfterWriterTerminated ==
    AllHandlesDropped =>
        /\ tracer.channel = <<>>
        /\ tracer.buffer = <<>>
        /\ tracer.file = tracer.sent
        /\ tracer.writer = "terminated"

\* C28, corrected: every record sent is consumed exactly once, in channel
\* order, by the writer thread, a sender waiting while the channel is full
\* and losing nothing; the drop of the last handle returns only after the
\* writer has drained the channel, flushed its buffer and called unpark, its
\* last statement (the thread itself may end after the drop has returned);
\* and every drop returns, whatever the number of clones and the order of
\* their drops.
C28_TracerDeliveryAndShutdown ==
    /\ []DeliveredInOrder
    /\ []DropWaitsForWriter
    /\ DropReturns

\* Witness of C28: two handles have sent three records between them, the
\* channel was full on the way, both handles are dropped, the second one
\* made being the first dropped, and the file holds the three records.
C28_Witness ==
    /\ AllHandlesDropped
    /\ tracer.handle[2] = "dropped"
    /\ tracer.was_full
    /\ Len(tracer.file) = 3
    /\ \E r \in 1..3 : tracer.file[r].from = 2
    /\ \E r \in 1..3 : tracer.file[r].from = 1

====
